---- MODULE Spec2Model ----
(***************************************************************************)
(* Token lifecycle engine of astro-tokenkit: TokenManager (login, refresh, *)
(* ensure, logout), the SingleFlight coordinator, the refresh policy and   *)
(* the cookie-backed token store.                                          *)
(*                                                                         *)
(* State.  store: the cookies of each request context; inFlight: the map   *)
(* of SingleFlight; flights: the refresh requests awaiting their response; *)
(* calls: the calls suspended at an await, oldest first; started: how many *)
(* calls were made so far; returned: what the calls that ended in the      *)
(* latest turn of the event loop returned, in the order they ended.        *)
(*                                                                         *)
(* Values.  Token strings are positive integers; 0 is the empty string.    *)
(* Absent is a cookie that is not set; Null is JavaScript null/undefined.  *)
(* Times are Unix seconds.                                                 *)
(***************************************************************************)
EXTENDS Integers, Sequences, FiniteSets, TLC

VARIABLES now, store, inFlight, flights, calls, started, returned, nextTok,
          config

vars == <<now, store, inFlight, flights, calls, started, returned, nextTok,
          config>>

(***************************************************************************)
(* Bounds of the model                                                     *)
(***************************************************************************)
MaxCalls == 3

Now0 == 1000
Ctx == {1, 2}
\* the context that login(), logout() and direct refresh() are called on
UserCtx == {1}
Lifetimes == {3600}

Absent == -1
Null == -1
Unset == -1

(***************************************************************************)
(* policy.ts                                                               *)
(***************************************************************************)
DEFAULT_refreshBefore == 300
DEFAULT_clockSkew == 60
DEFAULT_minInterval == 30

DEFAULT_POLICY ==
    [refreshBefore |-> DEFAULT_refreshBefore,
     clockSkew |-> DEFAULT_clockSkew,
     minInterval |-> DEFAULT_minInterval]

(***************************************************************************)
(* utils/time.ts.  A policy field is left out, a number of seconds or a    *)
(* string, kept as the sequence of its characters.                         *)
(***************************************************************************)
Undefined == [type |-> "undefined", num |-> 0, str |-> <<>>]
Num(n) == [type |-> "number", num |-> n, str |-> <<>>]
Str(s) == [type |-> "string", num |-> 0, str |-> s]

\* an object (of a response body), known by an identity
Obj(id) == [type |-> "object", num |-> id, str |-> <<>>]

\* JavaScript truthiness: undefined, 0, NaN and '' are falsy
Truthy(v) ==
    \/ (v.type = "number" /\ v.num # 0)
    \/ (v.type = "string" /\ v.str # <<>>)
    \/ v.type = "object"

DigitChars == <<"0", "1", "2", "3", "4", "5", "6", "7", "8", "9">>
IsDigit(ch) == \E i \in 1..Len(DigitChars) : DigitChars[i] = ch
DigitValue(ch) == (CHOOSE i \in 1..Len(DigitChars) : DigitChars[i] = ch) - 1

RECURSIVE parseInt(_)
parseInt(digits) ==
    IF digits = <<>> THEN 0
    ELSE 10 * parseInt(SubSeq(digits, 1, Len(digits) - 1))
            + DigitValue(digits[Len(digits)])

multipliers(unit) ==
    CASE unit = "s" -> 1
      [] unit = "m" -> 60
      [] unit = "h" -> 60 * 60
      [] unit = "d" -> 60 * 60 * 24

\* input.match(/^(\d+)([smhd])$/)
matchTime(str) ==
    /\ Len(str) >= 2
    /\ \A i \in 1..(Len(str) - 1) : IsDigit(str[i])
    /\ str[Len(str)] \in {"s", "m", "h", "d"}

\* the value of parseTime when it throws
Invalid == -2

parseTime(input) ==
    IF input.type = "number" THEN input.num
    ELSE IF matchTime(input.str)
    THEN parseInt(SubSeq(input.str, 1, Len(input.str) - 1))
            * multipliers(input.str[Len(input.str)])
    ELSE Invalid

normalizePolicy(policy) ==
    [refreshBefore |-> IF Truthy(policy.refreshBefore)
                       THEN parseTime(policy.refreshBefore)
                       ELSE DEFAULT_POLICY.refreshBefore,
     clockSkew |-> IF Truthy(policy.clockSkew)
                   THEN parseTime(policy.clockSkew)
                   ELSE DEFAULT_POLICY.clockSkew,
     minInterval |-> IF Truthy(policy.minInterval)
                     THEN parseTime(policy.minInterval)
                     ELSE DEFAULT_POLICY.minInterval]

\* normalizePolicy throws when parseTime throws on one of the fields; then
\* shouldRefresh and isExpired throw, and have no value
policyThrows(policy) ==
    LET n == normalizePolicy(policy)
    IN  Invalid \in {n.refreshBefore, n.clockSkew, n.minInterval}

shouldRefreshEager(expiresAt, nowArg, lastRefreshAt, policy) == TRUE

shouldRefreshInclusive(expiresAt, nowArg, lastRefreshAt, policy) ==
    LET n == normalizePolicy(policy)
    IN  IF expiresAt - (nowArg + n.clockSkew) >= n.refreshBefore THEN FALSE
        ELSE IF lastRefreshAt # Null /\ nowArg - lastRefreshAt < n.minInterval
             THEN FALSE
             ELSE TRUE

shouldRefreshNoInterval(expiresAt, nowArg, lastRefreshAt, policy) ==
    LET n == normalizePolicy(policy)
    IN  ~ (expiresAt - (nowArg + n.clockSkew) > n.refreshBefore)

shouldRefresh(expiresAt, nowArg, lastRefreshAt, policy) ==
    LET n == normalizePolicy(policy)
        adjustedNow == nowArg + n.clockSkew
        timeUntilExpiry == expiresAt - adjustedNow
    IN  IF timeUntilExpiry > n.refreshBefore THEN FALSE
        ELSE IF lastRefreshAt # Null /\ nowArg - lastRefreshAt < n.minInterval
             THEN FALSE
             ELSE TRUE

isExpiredNoSkew(expiresAt, nowArg, policy) == nowArg > expiresAt

isExpired(expiresAt, nowArg, policy) ==
    LET n == normalizePolicy(policy)
    IN  nowArg + n.clockSkew > expiresAt

(***************************************************************************)
(* storage.ts                                                              *)
(***************************************************************************)
NoCookies ==
    [accessToken |-> Absent, refreshToken |-> Absent,
     expiresAt |-> Absent, lastRefreshAt |-> Absent]

\* bundle.accessExpiresAt.toString() / now.toString(): the decimal string
\* of an integer, kept as that integer.
storeTokens(cookies, bundle, nowArg) ==
    [accessToken |-> bundle.accessToken,
     refreshToken |-> bundle.refreshToken,
     expiresAt |-> bundle.accessExpiresAt,
     lastRefreshAt |-> nowArg]

\* `value || null` maps a missing cookie and the empty string to null;
\* the numeric cookies are parsed when their string is non-empty.
retrieveTokens(cookies) ==
    [accessToken |-> IF cookies.accessToken \in {Absent, 0}
                     THEN Null ELSE cookies.accessToken,
     refreshToken |-> IF cookies.refreshToken \in {Absent, 0}
                      THEN Null ELSE cookies.refreshToken,
     expiresAt |-> IF cookies.expiresAt = Absent
                   THEN Null ELSE cookies.expiresAt,
     lastRefreshAt |-> IF cookies.lastRefreshAt = Absent
                       THEN Null ELSE cookies.lastRefreshAt]

clearTokensKeepsRefresh(cookies) ==
    [NoCookies EXCEPT !.refreshToken = cookies.refreshToken]

clearTokens(cookies) == NoCookies

\* JavaScript falsiness of a token (null or '') and of a number (null or 0)
Falsy(v) == v = Null \/ v = 0

(***************************************************************************)
(* detector.ts                                                             *)
(***************************************************************************)
Throw == [threw |-> TRUE]

\* A response body is seen through the fields the detector probes:
\* accessToken / refreshToken (0: no such field or ''),
\* expiresAt (Unset: no absolute field), expiresIn (Unset: no relative field).
autoDetectFields(body, nowArg) ==
    IF Falsy(body.accessToken) THEN Throw
    ELSE IF Falsy(body.refreshToken) THEN Throw
    ELSE IF body.expiresAt # Unset
         THEN [threw |-> FALSE, accessToken |-> body.accessToken,
               refreshToken |-> body.refreshToken,
               accessExpiresAt |-> body.expiresAt]
    ELSE IF body.expiresIn # Unset
         THEN [threw |-> FALSE, accessToken |-> body.accessToken,
               refreshToken |-> body.refreshToken,
               accessExpiresAt |-> nowArg + body.expiresIn]
    ELSE Throw

(***************************************************************************)
(* detector.ts on the response body itself: a body maps field names to     *)
(* values (Undefined: no such field), a FieldMapping maps the logical      *)
(* fields to field names ("": not mapped).                                 *)
(***************************************************************************)
ACCESS_TOKEN_FIELDS ==
    <<"access_token", "accessToken", "token", "jwt", "id_token", "idToken">>
REFRESH_TOKEN_FIELDS == <<"refresh_token", "refreshToken", "refresh">>
EXPIRES_AT_FIELDS == <<"expires_at", "expiresAt", "exp", "expiry">>
EXPIRES_IN_FIELDS == <<"expires_in", "expiresIn", "ttl">>
SESSION_PAYLOAD_FIELDS == <<"user", "profile", "account", "data">>

\* body[name]
Field(body, name) ==
    IF name \in DOMAIN body THEN body[name] ELSE Undefined

\* lines 60-70
findField(body, candidates, mapping) ==
    IF mapping # "" /\ Field(body, mapping) # Undefined
    THEN Field(body, mapping)
    ELSE IF \E i \in 1..Len(candidates) :
               Field(body, candidates[i]) # Undefined
    THEN Field(body, candidates[
            CHOOSE i \in 1..Len(candidates) :
                /\ Field(body, candidates[i]) # Undefined
                /\ \A j \in 1..(i - 1) :
                      Field(body, candidates[j]) = Undefined])
    ELSE Undefined

NaN == [type |-> "NaN", num |-> 0, str |-> <<>>]

\* the length of the run of digits a string starts with
RECURSIVE DigitRun(_)
DigitRun(str) ==
    IF str = <<>> \/ ~ IsDigit(Head(str)) THEN 0
    ELSE 1 + DigitRun(Tail(str))

\* typeof value === 'number' ? value : parseInt(value, 10)  (lines 96-98,
\* 105-107): parseInt reads the digits the string starts with, NaN if none
numberOrParseInt(value) ==
    IF value.type = "number" THEN value
    ELSE IF value.type = "string" /\ DigitRun(value.str) > 0
    THEN Num(parseInt(SubSeq(value.str, 1, DigitRun(value.str))))
    ELSE NaN

\* Math.floor(Date.now() / 1000) + expiresIn
nowPlus(nowArg, expiresIn) ==
    IF expiresIn = NaN THEN NaN ELSE Num(nowArg + expiresIn.num)

DetectorThrow ==
    [threw |-> TRUE, accessToken |-> Undefined, refreshToken |-> Undefined,
     accessExpiresAt |-> Undefined, tokenType |-> Undefined,
     sessionPayload |-> Undefined]

\* lines 90-110
accessExpiresAtOf(body, fieldMapping, nowArg) ==
    LET expiresAtValue ==
            findField(body, EXPIRES_AT_FIELDS, fieldMapping.expiresAt)
        expiresInValue ==
            findField(body, EXPIRES_IN_FIELDS, fieldMapping.expiresIn)
    IN  IF expiresAtValue # Undefined THEN numberOrParseInt(expiresAtValue)
        ELSE IF expiresInValue # Undefined
        THEN nowPlus(nowArg, numberOrParseInt(expiresInValue))
        ELSE Undefined

\* autoDetectFields(body, fieldMapping), lines 58-128; the bundle it returns
\* has no tokenType key
detect(body, fieldMapping, nowArg) ==
    LET accessToken ==
            findField(body, ACCESS_TOKEN_FIELDS, fieldMapping.accessToken)
        refreshToken ==
            findField(body, REFRESH_TOKEN_FIELDS, fieldMapping.refreshToken)
        accessExpiresAt == accessExpiresAtOf(body, fieldMapping, nowArg)
        sessionPayload ==
            findField(body, SESSION_PAYLOAD_FIELDS, fieldMapping.sessionPayload)
    IN  IF ~ Truthy(accessToken) THEN DetectorThrow
        ELSE IF ~ Truthy(refreshToken) THEN DetectorThrow
        ELSE IF accessExpiresAt = Undefined THEN DetectorThrow
        ELSE [threw |-> FALSE, accessToken |-> accessToken,
              refreshToken |-> refreshToken,
              accessExpiresAt |-> accessExpiresAt,
              tokenType |-> Undefined,
              sessionPayload |-> IF Truthy(sessionPayload)
                                 THEN sessionPayload ELSE Undefined]

(***************************************************************************)
(* storage.ts on the cookies themselves: the cookies of a ctx are a set of *)
(* <<name, value>> pairs, one per name, the values strings (sequences of   *)
(* characters); a cookie configuration is known by its prefix ("": none).  *)
(***************************************************************************)
getCookieNamesNoPrefix(prefix) ==
    [accessToken |-> "access_token", refreshToken |-> "refresh_token",
     expiresAt |-> "access_expires_at", lastRefreshAt |-> "last_refresh_at"]

\* lines 19-27
getCookieNames(prefix) ==
    LET p == IF prefix = "" THEN "" ELSE prefix \o "_"
    IN  [accessToken |-> p \o "access_token",
         refreshToken |-> p \o "refresh_token",
         expiresAt |-> p \o "access_expires_at",
         lastRefreshAt |-> p \o "last_refresh_at"]

\* ctx.cookies.set(name, value, options)
cookiesSet(jar, name, value) ==
    {e \in jar : e[1] # name} \cup {<<name, value>>}

\* ctx.cookies.get(name)?.value
cookiesGet(jar, name) ==
    IF \E e \in jar : e[1] = name
    THEN Str((CHOOSE e \in jar : e[1] = name)[2])
    ELSE Undefined

\* ctx.cookies.delete(name, options)
cookiesDelete(jar, name) == {e \in jar : e[1] # name}

\* A number with a fractional part: num is its integer part, str the
\* digits after the point (Num(n) has none).
Fraction(n, digits) == [type |-> "number", num |-> n, str |-> digits]

RECURSIVE toDigits(_)
toDigits(n) ==
    IF n < 10 THEN <<DigitChars[n + 1]>>
    ELSE toDigits(n \div 10) \o <<DigitChars[(n % 10) + 1]>>

\* Number.prototype.toString() of a number that is not negative
toString(v) ==
    IF v.str = <<>> THEN toDigits(v.num)
    ELSE toDigits(v.num) \o <<".">> \o v.str

\* storeTokens(ctx, bundle, cookieConfig), lines 46-88
storeCookies(jar, bundle, prefix, nowArg) ==
    LET names == getCookieNames(prefix)
    IN  cookiesSet(
          cookiesSet(
            cookiesSet(
              cookiesSet(jar, names.accessToken, bundle.accessToken.str),
              names.refreshToken, bundle.refreshToken.str),
            names.expiresAt, toString(bundle.accessExpiresAt)),
          names.lastRefreshAt, toString(Num(nowArg)))

NullValue == [type |-> "null", num |-> 0, str |-> <<>>]

retrieveCookiesCopyPaste(jar, prefix) ==
    LET names == getCookieNames(prefix)
        orNull(v) == IF Truthy(v) THEN v ELSE NullValue
        \* expiresAtStr ? parseInt(expiresAtStr, 10) : null
        parsed(v) == IF Truthy(v) THEN numberOrParseInt(v) ELSE NullValue
    IN  [accessToken |-> orNull(cookiesGet(jar, names.accessToken)),
         refreshToken |-> orNull(cookiesGet(jar, names.refreshToken)),
         expiresAt |-> parsed(cookiesGet(jar, names.lastRefreshAt)),
         lastRefreshAt |-> parsed(cookiesGet(jar, names.lastRefreshAt))]

\* retrieveTokens(ctx, cookieConfig), lines 93-114
retrieveCookies(jar, prefix) ==
    LET names == getCookieNames(prefix)
        orNull(v) == IF Truthy(v) THEN v ELSE NullValue
        \* expiresAtStr ? parseInt(expiresAtStr, 10) : null
        parsed(v) == IF Truthy(v) THEN numberOrParseInt(v) ELSE NullValue
    IN  [accessToken |-> orNull(cookiesGet(jar, names.accessToken)),
         refreshToken |-> orNull(cookiesGet(jar, names.refreshToken)),
         expiresAt |-> parsed(cookiesGet(jar, names.expiresAt)),
         lastRefreshAt |-> parsed(cookiesGet(jar, names.lastRefreshAt))]

\* clearTokens(ctx, cookieConfig), lines 119-127
clearCookies(jar, prefix) ==
    LET names == getCookieNames(prefix)
    IN  cookiesDelete(
          cookiesDelete(
            cookiesDelete(cookiesDelete(jar, names.accessToken),
                          names.refreshToken),
            names.expiresAt),
          names.lastRefreshAt)

(***************************************************************************)
(* manager.ts                                                              *)
(***************************************************************************)
createFlightKeyHashed(token) == <<"refresh_", token % 2>>

createFlightKey(token) == <<"refresh_", token>>

NoBundle == [accessToken |-> 0, refreshToken |-> 0, accessExpiresAt |-> 0]
NullResult == [kind |-> "null", accessToken |-> 0, expiresAt |-> 0]
ErrorResult(name) == [kind |-> name, accessToken |-> 0, expiresAt |-> 0]
Session(at, exp) == [kind |-> "session", accessToken |-> at, expiresAt |-> exp]
SessionOfBundle(b) == Session(b.accessToken, b.accessExpiresAt)
BundleResult(b) ==
    [kind |-> "bundle", accessToken |-> b.accessToken,
     expiresAt |-> b.accessExpiresAt]

BundleOf(p) ==
    [accessToken |-> p.accessToken, refreshToken |-> p.refreshToken,
     accessExpiresAt |-> p.accessExpiresAt]

\* SingleFlight.inFlight: a set of <<key, flight id>> pairs, one per key
inFlightGet(key) ==
    IF \E e \in inFlight : e[1] = key
    THEN (CHOOSE e \in inFlight : e[1] = key)[2]
    ELSE 0

\* the promise of a refresh() call whose request is sent and not answered
FlightIds == {f.id : f \in flights}
FlightOf(id) == CHOOSE f \in flights : f.id = id
FreshFlight ==
    CHOOSE n \in 1..(Cardinality(flights) + 1) :
        n \notin FlightIds /\ \A m \in 1..(n - 1) : m \in FlightIds

\* Request data: an object over the keys the model follows; Absent: the
\* object has no such key
DataKeys == {"refreshToken", "refresh_token", "tenant"}
NoData == [k \in DataKeys |-> Absent]

\* { ...a, ...b }
spread(a, b) == [k \in DataKeys |-> IF b[k] # Absent THEN b[k] ELSE a[k]]

\* this.config.refreshRequestField || 'refreshToken'
refreshField == IF config.refreshRequestField = ""
                THEN "refreshToken" ELSE config.refreshRequestField

refreshRequestDataTokenFirst(optionsData, refreshToken) ==
    spread(spread([NoData EXCEPT ![refreshField] = refreshToken],
                  config.refreshData), optionsData)

\* performRefresh lines 160-165
refreshRequestData(optionsData, refreshToken) ==
    [spread(config.refreshData, optionsData) EXCEPT
        ![refreshField] = refreshToken]

\* JSON.stringify(data) / new URLSearchParams(data).toString(): one
\* key-value pair for every key of the object (lines 167-172)
requestBody(data) == {<<k, data[k]>> : k \in {j \in DataKeys : data[j] # Absent}}

NewFlight(c, rt, viaSF, data) ==
    [id |-> FreshFlight, ctx |-> c, rt |-> rt, viaSF |-> viaSF,
     manager |-> config.manager,
     data |-> data, body |-> requestBody(refreshRequestData(data, rt))]

\* what a call awaited: the refresh that settled (its status "ok", "null" or
\* "err", the outcome at the endpoint, the bundle, the refresh token sent)
NoRefresh ==
    [status |-> "none", outcome |-> "none", bundle |-> NoBundle, rt |-> 0]

Return(call, refresh, result) ==
    [op |-> call.op, ctx |-> call.ctx, force |-> call.force,
     tokens |-> call.tokens, path |-> call.path, sent |-> call.sent,
     options |-> call.options, hooks |-> call.hooks, error |-> call.error,
     refresh |-> refresh, result |-> result]

(***************************************************************************)
(* Initial state: cookie jars of the request contexts, a fresh manager     *)
(***************************************************************************)
UserA(exp, last) ==
    [accessToken |-> 1, refreshToken |-> 2, expiresAt |-> exp,
     lastRefreshAt |-> last]

UserB(exp, last) ==
    [accessToken |-> 3, refreshToken |-> 4, expiresAt |-> exp,
     lastRefreshAt |-> last]

FirstFreshTok == 5

\* Valid, due for proactive refresh, due but refreshed 10 s ago, expired
\* (and refreshed 10 s ago), only the refresh cookie left (the browser has
\* dropped the cookies that live as long as the access token).
InitJarsA ==
    {UserA(Now0 + 3600, Absent), UserA(Now0 + 300, Absent),
     UserA(Now0 + 300, Now0 - 10), UserA(Now0 + 30, Now0 - 10),
     [NoCookies EXCEPT !.refreshToken = 2]}

\* Two requests of one browser carry the same cookies; or the second
\* request is another user's, both with an expired access token (the
\* second user's expiry is in the past).
InitStores ==
    {[c \in Ctx |-> a] : a \in InitJarsA}
    \cup {[c \in Ctx |-> IF c = 1 THEN UserA(Now0 + 30, Now0 - 10)
                                  ELSE UserB(Now0 - 30, Absent)]}

NoPolicy ==
    [refreshBefore |-> Undefined, clockSkew |-> Undefined,
     minInterval |-> Undefined]

\* with a logout endpoint and the field detector, or with custom parsers
\* and no logout endpoint
Configs ==
    {[logout |-> TRUE, custom |-> FALSE, policy |-> NoPolicy,
      refreshData |-> NoData, refreshRequestField |-> "",
      manager |-> 0],
     [logout |-> FALSE, custom |-> TRUE, policy |-> NoPolicy,
      refreshData |-> NoData, refreshRequestField |-> "",
      manager |-> 0]}

Init ==
    /\ now = Now0
    /\ store \in InitStores
    /\ inFlight = {}
    /\ flights = {}
    /\ calls = <<>>
    /\ started = 0
    /\ returned = <<>>
    /\ nextTok = FirstFreshTok
    /\ config \in Configs

(***************************************************************************)
(* What the endpoints may answer                                           *)
(***************************************************************************)
FailOutcomes == {"401", "403", "500", "transport"}

ExpiryFields ==
    {[expiresAt |-> Unset, expiresIn |-> Unset],
     [expiresAt |-> 0, expiresIn |-> Unset]}
    \cup {[expiresAt |-> now + l, expiresIn |-> Unset] : l \in Lifetimes}
    \cup {[expiresAt |-> Unset, expiresIn |-> l] : l \in Lifetimes}

Bodies ==
    {[accessToken |-> a, refreshToken |-> r,
      expiresAt |-> e.expiresAt, expiresIn |-> e.expiresIn] :
        a \in {0, nextTok}, r \in {0, nextTok + 1}, e \in ExpiryFields}

\* A custom parser (config.parseLogin / config.parseRefresh) is caller code:
\* it throws or returns any bundle, complete or not.
CustomBundles ==
    {[threw |-> FALSE, accessToken |-> a, refreshToken |-> r,
      accessExpiresAt |-> e] :
        a \in {nextTok}, r \in {0, nextTok + 1},
        e \in {0} \cup {now + l : l \in Lifetimes}}

ParseResults ==
    IF config.custom
    THEN {Throw} \cup CustomBundles
    ELSE {autoDetectFields(b, now) : b \in Bodies}

\* performRefresh line 214
ValidBundle(p) ==
    ~ (Falsy(p.accessToken) \/ Falsy(p.refreshToken) \/ Falsy(p.accessExpiresAt))

(***************************************************************************)
(* SingleFlight.execute + the synchronous prefix of refresh/performRefresh *)
(* (the refresh request is sent before execute returns the promise)        *)
(***************************************************************************)
JoinsNever(key) == FALSE

Joins(key) == inFlightGet(key) # 0

FlightFor(key) == IF Joins(key) THEN inFlightGet(key) ELSE FreshFlight

ExecuteForgets(key, c, rt, data) ==
    /\ flights' = flights \cup {NewFlight(c, rt, TRUE, data)}
    /\ UNCHANGED inFlight

Execute(key, c, rt, data) ==
    IF Joins(key)
    THEN UNCHANGED <<flights, inFlight>>
    ELSE /\ flights' = flights \cup {NewFlight(c, rt, TRUE, data)}
         /\ inFlight' = {e \in inFlight : e[1] # key} \cup {<<key, FreshFlight>>}

\* An AuthError as login() builds it: the status of the response (0: none)
\* and the error it wraps (cause; "none": none)
NoError == [name |-> "none", status |-> 0, cause |-> "none"]
AuthError(status, cause) ==
    [name |-> "AuthError", status |-> status, cause |-> cause]

\* LoginOptions: the hooks the caller of login() supplies
NoOptions == [onLogin |-> FALSE, onError |-> FALSE]
LoginOptions == [onLogin : BOOLEAN, onError : BOOLEAN]

\* a call as it suspends: `tokens` is what it read, `path` the branch it
\* took, `flight` the promise it awaits, `sent` the requests it sent itself,
\* `options` the hooks it was given, `hooks` the hook invocations it made,
\* `error` the AuthError login() built
NewCall(op, c, force) ==
    [op |-> op, ctx |-> c, force |-> force,
     tokens |-> retrieveTokens(NoCookies), path |-> "none", flight |-> 0,
     sent |-> 0, options |-> NoOptions, hooks |-> <<>>, error |-> NoError]

(***************************************************************************)
(* ensure(): from the call to the first await (or to the return)           *)
(***************************************************************************)
IncompleteNoExpiry(tokens) ==
    Falsy(tokens.accessToken) \/ Falsy(tokens.refreshToken)

IncompleteNeedsLastRefresh(tokens) ==
    Falsy(tokens.accessToken) \/ Falsy(tokens.refreshToken)
        \/ Falsy(tokens.expiresAt) \/ Falsy(tokens.lastRefreshAt)

Incomplete(tokens) ==
    Falsy(tokens.accessToken) \/ Falsy(tokens.refreshToken)
        \/ Falsy(tokens.expiresAt)

\* line 237: force || isExpired(...); isExpired is not called under force
reactiveRateLimited(force, tokens) ==
    /\ force \/ isExpired(tokens.expiresAt, now, config.policy)
    /\ ~ (/\ tokens.lastRefreshAt # Null
          /\ now - tokens.lastRefreshAt
                < normalizePolicy(config.policy).minInterval)

reactive(force, tokens) ==
    force \/ isExpired(tokens.expiresAt, now, config.policy)

EnsureStart(c, force, data) ==
    /\ started < MaxCalls
    /\ started' = started + 1
    /\ LET tokens == retrieveTokens(store[c])
           call == [NewCall("ensure", c, force) EXCEPT !.tokens = tokens]
           key == createFlightKey(tokens.refreshToken)
           refreshing(path) ==
               /\ Execute(key, c, tokens.refreshToken, data)
               /\ calls' = Append(calls,
                     [call EXCEPT !.path = path, !.flight = FlightFor(key),
                                  !.sent = IF Joins(key) THEN @ ELSE @ + 1])
               /\ returned' = <<>>
           returning(path, result) ==
               /\ returned' = <<Return([call EXCEPT !.path = path],
                                       NoRefresh, result)>>
               /\ UNCHANGED <<calls, flights, inFlight>>
       IN  IF Incomplete(tokens)
           THEN returning("absent", NullResult)
           ELSE IF ~ force /\ policyThrows(config.policy)
           THEN returning("threw", ErrorResult("Error"))
           ELSE IF reactive(force, tokens)
           THEN refreshing("reactive")
           ELSE IF shouldRefresh(tokens.expiresAt, now, tokens.lastRefreshAt,
                                 config.policy)
           THEN refreshing("proactive")
           ELSE returning("valid",
                          Session(tokens.accessToken, tokens.expiresAt))
    /\ UNCHANGED <<now, store, nextTok, config>>

(***************************************************************************)
(* refresh(ctx, refreshToken) called directly: no SingleFlight             *)
(***************************************************************************)
KnownRefreshTokens ==
    {store[c].refreshToken : c \in UserCtx} \ {Absent, 0}

RefreshStart(c, rt, data) ==
    /\ started < MaxCalls
    /\ started' = started + 1
    /\ rt \in KnownRefreshTokens
    /\ flights' = flights \cup {NewFlight(c, rt, FALSE, data)}
    /\ calls' = Append(calls,
          [NewCall("refresh", c, FALSE) EXCEPT !.flight = FreshFlight,
                                               !.sent = @ + 1])
    /\ returned' = <<>>
    /\ UNCHANGED <<now, store, inFlight, nextTok, config>>

(***************************************************************************)
(* ensure(): the continuation after `await this.singleFlight.execute(...)` *)
(* of a call that read `tokens` on `path`; `jar` is the cookie jar of its  *)
(* ctx when it resumes.  The value is the result of the call.              *)
(***************************************************************************)
EnsureAfterAwait(call, status, bundle, jar) ==
    IF status = "err" THEN ErrorResult("AuthError")
    ELSE IF status = "ok" THEN SessionOfBundle(bundle)
    ELSE IF call.path = "reactive" THEN NullResult
    ELSE LET currentTokens == retrieveTokens(jar)
         IN  IF Falsy(currentTokens.accessToken)
             THEN NullResult
             ELSE Session(call.tokens.accessToken, call.tokens.expiresAt)

\* refresh(): catch (error) { clearTokens(ctx, ...); throw error; }
refreshCatchKeeps(cookies) == cookies

refreshCatch(cookies) == clearTokens(cookies)

(***************************************************************************)
(* The refresh request of flight f settles.  One turn of the event loop    *)
(* runs the rest of performRefresh, the catch of refresh(), the finally of *)
(* SingleFlight.execute and the continuation of every call that awaits the *)
(* flight (each ensure() stores the bundle in its own ctx).  `jar` is what *)
(* refresh() leaves in the cookies of its ctx.                             *)
(***************************************************************************)
\* SingleFlight.execute: finally { this.inFlight.delete(key) }
finallyOnSuccess(key, status) ==
    IF status = "err" THEN inFlight ELSE {e \in inFlight : e[1] # key}

finally(key, status) == {e \in inFlight : e[1] # key}

Awaits(call, f) == call.flight = f.id

Waiters(f) ==
    {i \in 1..Len(calls) : calls[i].op = "ensure" /\ Awaits(calls[i], f)}

RefreshSettled(f, status, outcome, bundle, jar) ==
    LET afterRefresh == [store EXCEPT ![f.ctx] = jar]
        refresh == [status |-> status, outcome |-> outcome,
                    bundle |-> bundle, rt |-> f.rt]
        resumed == SelectSeq(calls, LAMBDA call : Awaits(call, f))
    IN  /\ flights' = flights \ {f}
        /\ inFlight' = IF f.viaSF /\ f.manager = config.manager
                       THEN finally(createFlightKey(f.rt), status)
                       ELSE inFlight
        /\ store' = [c \in Ctx |->
                       IF status = "ok" /\ \E i \in Waiters(f) : calls[i].ctx = c
                       THEN storeTokens(afterRefresh[c], bundle, now)
                       ELSE afterRefresh[c]]
        /\ calls' = SelectSeq(calls, LAMBDA call : ~ Awaits(call, f))
        /\ returned' = [k \in 1..Len(resumed) |->
              Return(resumed[k], refresh,
                  IF resumed[k].op = "ensure"
                  THEN EnsureAfterAwait(resumed[k], status, bundle,
                                        afterRefresh[resumed[k].ctx])
                  ELSE IF status = "ok" THEN BundleResult(bundle)
                  ELSE IF status = "null" THEN NullResult
                  ELSE ErrorResult("AuthError"))]

RefreshFails(f, outcome) ==
    /\ outcome \in FailOutcomes
    /\ IF outcome \in {"401", "403"}
       THEN RefreshSettled(f, "null", outcome, NoBundle,
                           clearTokens(store[f.ctx]))
       ELSE RefreshSettled(f, "err", outcome, NoBundle,
                           refreshCatch(store[f.ctx]))
    /\ UNCHANGED nextTok

RefreshAnswers(f, p) ==
    /\ p \in ParseResults
    /\ IF p.threw
       THEN /\ RefreshSettled(f, "err", "unparsable", NoBundle,
                              refreshCatch(store[f.ctx]))
            /\ UNCHANGED nextTok
       ELSE IF ~ ValidBundle(p)
       THEN /\ RefreshSettled(f, "err", "incomplete", NoBundle,
                              refreshCatch(store[f.ctx]))
            /\ UNCHANGED nextTok
       ELSE /\ RefreshSettled(f, "ok", "ok", BundleOf(p),
                   storeTokens(store[f.ctx], BundleOf(p), now))
            /\ nextTok' = nextTok + 2

RefreshResponse(f) ==
    /\ f \in flights
    /\ \/ \E outcome \in FailOutcomes : RefreshFails(f, outcome)
       \/ \E p \in ParseResults : RefreshAnswers(f, p)
    /\ UNCHANGED <<now, started, config>>

(***************************************************************************)
(* login()                                                                 *)
(***************************************************************************)
LoginStart(c, options) ==
    /\ started < MaxCalls
    /\ started' = started + 1
    /\ options \in LoginOptions
    /\ calls' = Append(calls, [NewCall("login", c, FALSE) EXCEPT
                                  !.sent = @ + 1, !.options = options])
    /\ returned' = <<>>
    /\ UNCHANGED <<now, store, inFlight, flights, nextTok, config>>

\* call i stays suspended on a second request
ResumedResends(i) == [calls EXCEPT ![i].sent = @ + 1]

\* call i leaves the suspended calls
Resumed(i) == [k \in 1..(Len(calls) - 1) |->
                  IF k < i THEN calls[k] ELSE calls[k + 1]]

\* response.json().catch(() => ({})): a body that is not JSON reads as {}
EmptyBody ==
    [accessToken |-> 0, refreshToken |-> 0, expiresAt |-> Unset,
     expiresIn |-> Unset]

\* the body of a login response and what the configured parser makes of it
\* (lines 103-110); a custom parser is caller code, whatever the body is
LoginBodies ==
    IF config.custom
    THEN {[body |-> EmptyBody, parsed |-> r] : r \in {Throw} \cup CustomBundles}
    ELSE {[body |-> b, parsed |-> autoDetectFields(b, now)] : b \in Bodies}

\* A hook is caller code: it is called with its arguments, finds the cookie
\* jar of its ctx as login() left it (`jar`), and returns or throws (`threw`).
OnLoginCall(bundle, body, c, jar, threw) ==
    [name |-> "onLogin", bundle |-> bundle, body |-> body, ctx |-> c,
     error |-> NoError, jar |-> jar, threw |-> threw]

OnErrorCall(error, c, jar, threw) ==
    [name |-> "onError", bundle |-> NoBundle, body |-> EmptyBody, ctx |-> c,
     error |-> error, jar |-> jar, threw |-> threw]

HookError == ErrorResult("HookError")

\* lines 91, 99, 113: if (options?.onError) await options.onError(authError, ctx);
\* then throw authError, unless the hook threw first
\* the response a login failure comes from: a 400 (line 97), a 200 whose
\* body the parser rejects (line 111), or none (fetch rejected, line 89)
responseStatus(path) ==
    CASE path = "non2xx" -> 400
      [] path = "unparsable" -> 200
      [] path = "transport" -> 0

authErrorBare(path) == AuthError(0, "none")

\* lines 90, 98, 112
authError(path) ==
    IF path = "transport" THEN AuthError(0, "fetch error")
    ELSE AuthError(responseStatus(path), "none")

loginCatchClears(cookies) == clearTokens(cookies)

\* lines 89-92, 97-101, 111-115: the error is built, reported and thrown;
\* the cookies are not touched
loginCatch(cookies) == cookies

LoginRejects(i, path, hookThrows) ==
    LET call == [calls[i] EXCEPT !.path = path, !.error = authError(path)]
    IN  /\ IF call.options.onError
           THEN returned' =
                   <<Return([call EXCEPT !.hooks =
                                <<OnErrorCall(call.error, call.ctx,
                                              store[call.ctx], hookThrows)>>],
                            NoRefresh,
                            IF hookThrows THEN HookError
                            ELSE ErrorResult("AuthError"))>>
           ELSE returned' = <<Return(call, NoRefresh, ErrorResult("AuthError"))>>
        /\ store' = [store EXCEPT ![call.ctx] = loginCatch(store[call.ctx])]
        /\ UNCHANGED nextTok

LoginOutcomes == {"non2xx", "transport"}

LoginFails(i, outcome, hookThrows) ==
    /\ outcome \in LoginOutcomes
    /\ LoginRejects(i, outcome, hookThrows)

\* the jar the onLogin hook finds: line 118 runs before line 122
jarAtOnLoginBeforeStore(cookies, bundle, nowArg) == cookies

jarAtOnLogin(cookies, bundle, nowArg) == storeTokens(cookies, bundle, nowArg)

\* the parsed bundle is stored as it is (lines 105-118), then the onLogin
\* hook is called (lines 121-123); what it throws leaves login() as it is
LoginAnswers(i, b, hookThrows) ==
    /\ b \in LoginBodies
    /\ IF b.parsed.threw
       THEN LoginRejects(i, "unparsable", hookThrows)
       ELSE LET call == [calls[i] EXCEPT !.path = "ok"]
                bundle == BundleOf(b.parsed)
            IN  /\ store' = [store EXCEPT ![call.ctx] =
                                storeTokens(store[call.ctx], bundle, now)]
                /\ IF call.options.onLogin
                   THEN returned' =
                           <<Return([call EXCEPT !.hooks =
                                        <<OnLoginCall(bundle, b.body, call.ctx,
                                             jarAtOnLogin(store[call.ctx],
                                                          bundle, now),
                                             hookThrows)>>],
                                    NoRefresh,
                                    IF hookThrows THEN HookError
                                    ELSE BundleResult(bundle))>>
                   ELSE returned' =
                           <<Return(call, NoRefresh, BundleResult(bundle))>>
                /\ nextTok' = nextTok + 2

LoginResponse(i) ==
    /\ i \in 1..Len(calls)
    /\ calls[i].op = "login"
    /\ \E hookThrows \in BOOLEAN :
          \/ \E outcome \in LoginOutcomes : LoginFails(i, outcome, hookThrows)
          \/ \E b \in LoginBodies : LoginAnswers(i, b, hookThrows)
    /\ calls' = Resumed(i)
    /\ UNCHANGED <<now, inFlight, flights, started, config>>

(***************************************************************************)
(* logout()                                                                *)
(***************************************************************************)
LogoutOutcomes == {"ok", "non2xx", "transport", "timeout"}

\* line 324, after the try/catch/finally: whatever happened to the request
logoutClearsOnSuccess(cookies, outcome) ==
    IF outcome = "ok" THEN clearTokens(cookies) ELSE cookies

logoutClears(cookies, outcome) == clearTokens(cookies)

\* with an endpoint, the session is read for the Authorization header and
\* the request is sent; without one the cookies are cleared at once
LogoutStart(c) ==
    /\ started < MaxCalls
    /\ started' = started + 1
    /\ IF config.logout
       THEN /\ calls' = Append(calls,
                  [NewCall("logout", c, FALSE) EXCEPT
                       !.tokens = retrieveTokens(store[c]),
                       !.sent = @ + 1])
            /\ returned' = <<>>
            /\ UNCHANGED store
       ELSE /\ returned' = <<Return(NewCall("logout", c, FALSE), NoRefresh,
                                    ErrorResult("void"))>>
            /\ store' = [store EXCEPT ![c] = logoutClears(store[c], "none")]
            /\ UNCHANGED calls
    /\ UNCHANGED <<now, inFlight, flights, nextTok, config>>

\* whatever the endpoint answers (or the request throws), tokens are cleared
LogoutResponse(i) ==
    /\ i \in 1..Len(calls)
    /\ calls[i].op = "logout"
    /\ \E outcome \in LogoutOutcomes :
          /\ returned' = <<Return([calls[i] EXCEPT !.path = outcome],
                                  NoRefresh, ErrorResult("void"))>>
          /\ store' = [store EXCEPT ![calls[i].ctx] =
                          logoutClears(store[calls[i].ctx], outcome)]
    /\ calls' = Resumed(i)
    /\ UNCHANGED <<now, inFlight, flights, started, nextTok, config>>

(***************************************************************************)
(* getSession() and isAuthenticated(): synchronous reads of the cookies    *)
(***************************************************************************)
getSession(tokens) ==
    IF Falsy(tokens.accessToken) \/ Falsy(tokens.expiresAt)
    THEN NullResult
    ELSE Session(tokens.accessToken, tokens.expiresAt)

isAuthenticatedUnexpired(tokens) ==
    /\ ~ Falsy(tokens.accessToken) /\ ~ Falsy(tokens.refreshToken)
    /\ ~ Falsy(tokens.expiresAt) /\ tokens.expiresAt > now

isAuthenticated(tokens) ==
    ~ Falsy(tokens.accessToken) /\ ~ Falsy(tokens.refreshToken)

BoolResult(b) ==
    [kind |-> IF b THEN "true" ELSE "false", accessToken |-> 0, expiresAt |-> 0]

GetSession(c) ==
    /\ started < MaxCalls
    /\ started' = started + 1
    /\ LET tokens == retrieveTokens(store[c])
       IN  returned' = <<Return([NewCall("getSession", c, FALSE) EXCEPT
                                    !.tokens = tokens],
                                NoRefresh, getSession(tokens))>>
    /\ UNCHANGED <<now, store, inFlight, flights, calls, nextTok, config>>

IsAuthenticated(c) ==
    /\ started < MaxCalls
    /\ started' = started + 1
    /\ LET tokens == retrieveTokens(store[c])
       IN  returned' = <<Return([NewCall("isAuthenticated", c, FALSE) EXCEPT
                                    !.tokens = tokens],
                                NoRefresh, BoolResult(isAuthenticated(tokens)))>>
    /\ UNCHANGED <<now, store, inFlight, flights, calls, nextTok, config>>

(***************************************************************************)
(* isExpired() and shouldRefresh() applied to the record of a ctx under    *)
(* the configured policy                                                   *)
(***************************************************************************)
CheckExpired(c) ==
    /\ started < MaxCalls
    /\ started' = started + 1
    /\ store[c].expiresAt # Absent
    /\ LET tokens == retrieveTokens(store[c])
       IN  returned' = <<Return([NewCall("isExpired", c, FALSE) EXCEPT
                                    !.tokens = tokens],
                                NoRefresh,
                                IF policyThrows(config.policy)
                                THEN ErrorResult("Error")
                                ELSE BoolResult(isExpired(tokens.expiresAt,
                                                   now, config.policy)))>>
    /\ UNCHANGED <<now, store, inFlight, flights, calls, nextTok, config>>

CheckRefresh(c) ==
    /\ started < MaxCalls
    /\ started' = started + 1
    /\ store[c].expiresAt # Absent
    /\ LET tokens == retrieveTokens(store[c])
       IN  returned' = <<Return([NewCall("shouldRefresh", c, FALSE) EXCEPT
                                    !.tokens = tokens],
                                NoRefresh,
                                IF policyThrows(config.policy)
                                THEN ErrorResult("Error")
                                ELSE BoolResult(shouldRefresh(tokens.expiresAt,
                                                   now, tokens.lastRefreshAt,
                                                   config.policy)))>>
    /\ UNCHANGED <<now, store, inFlight, flights, calls, nextTok, config>>

Next ==
    \/ \E c \in Ctx, force \in BOOLEAN : EnsureStart(c, force, NoData)
    \/ \E c \in UserCtx, rt \in KnownRefreshTokens :
          RefreshStart(c, rt, NoData)
    \/ \E f \in flights : RefreshResponse(f)
    \/ \E c \in UserCtx : LoginStart(c, NoOptions)
    \/ \E i \in 1..Len(calls) : LoginResponse(i)
    \/ \E c \in UserCtx : LogoutStart(c)
    \/ \E i \in 1..Len(calls) : LogoutResponse(i)
    \/ \E c \in Ctx : GetSession(c)
    \/ \E c \in Ctx : IsAuthenticated(c)

Spec == Init /\ [][Next]_vars

(***************************************************************************)
(* Requests through the shared `api` client.  Its tokenManager getter      *)
(* returns the global manager (client.ts:419-451), and a request calls     *)
(* ensure() on it, forced after a 401 (client.ts:554-555, 598-600).        *)
(* config.manager names the global manager: setConfig() replaces it by a   *)
(* new TokenManager, whose SingleFlight table is empty; inFlight is the    *)
(* table of the global manager, and a request of an earlier manager is     *)
(* still in flight with the calls that await it.                           *)
(***************************************************************************)
MaxSetConfig == 1

\* setConfig(userConfig) that leaves auth and baseURL as they are
SetConfig ==
    /\ config.manager < MaxSetConfig
    /\ config' = [config EXCEPT !.manager = @ + 1]
    /\ inFlight' = {}
    /\ returned' = <<>>
    /\ UNCHANGED <<now, store, flights, calls, started, nextTok>>

ApiNext ==
    \/ \E c \in Ctx, force \in BOOLEAN : EnsureStart(c, force, NoData)
    \/ \E f \in flights : RefreshResponse(f)
    \/ SetConfig

ApiSpec == Init /\ [][ApiNext]_vars

(***************************************************************************)
(* The policy functions and ensure() under configured policies: a manager  *)
(* constructed with one of the policies, records around the thresholds.    *)
(***************************************************************************)
FieldValues ==
    {Undefined, Num(0), Num(120), Str(<<"0", "s">>), Str(<<"2", "m">>),
     Str(<<"1", "0", "m">>), Str(<<"5", "x">>), Str(<<"m">>), Str(<<>>)}

\* one field configured, the other two left out
Policies ==
    {[NoPolicy EXCEPT !.refreshBefore = v] : v \in FieldValues}
    \cup {[NoPolicy EXCEPT !.clockSkew = v] : v \in FieldValues}
    \cup {[NoPolicy EXCEPT !.minInterval = v] : v \in FieldValues}

PolicyJars ==
    {UserA(Now0 + d, last) :
        d \in {30, 60, 61, 120, 359, 360, 361}, last \in {Absent, Now0 - 10}}

PolicyInit ==
    /\ now = Now0
    /\ \E a \in PolicyJars : store = [c \in Ctx |-> a]
    /\ inFlight = {}
    /\ flights = {}
    /\ calls = <<>>
    /\ started = 0
    /\ returned = <<>>
    /\ nextTok = FirstFreshTok
    /\ \E p \in Policies :
          config = [logout |-> TRUE, custom |-> FALSE, policy |-> p,
                    refreshData |-> NoData, refreshRequestField |-> "",
      manager |-> 0]

PolicyNext ==
    \/ \E c \in UserCtx : CheckExpired(c)
    \/ \E c \in UserCtx : CheckRefresh(c)
    \/ \E c \in UserCtx, force \in BOOLEAN : EnsureStart(c, force, NoData)

PolicySpec == PolicyInit /\ [][PolicyNext]_vars

(***************************************************************************)
(* login() with the hooks of LoginOptions, among the logout() calls of the *)
(* same manager                                                            *)
(***************************************************************************)
HooksNext ==
    \/ \E c \in UserCtx, options \in LoginOptions : LoginStart(c, options)
    \/ \E i \in 1..Len(calls) : LoginResponse(i)
    \/ \E c \in UserCtx : LogoutStart(c)
    \/ \E i \in 1..Len(calls) : LogoutResponse(i)

HooksSpec == Init /\ [][HooksNext]_vars

(***************************************************************************)
(* Refresh requests as they are sent, under configured refresh data, a     *)
(* configured name of the refresh field and per-request data               *)
(* (AuthOptions.data)                                                      *)
(***************************************************************************)
DataObjects ==
    {NoData, [NoData EXCEPT !["refreshToken"] = 9],
     [NoData EXCEPT !["refresh_token"] = 9], [NoData EXCEPT !["tenant"] = 7]}

RequestInit ==
    /\ now = Now0
    /\ \E a \in InitJarsA : store = [c \in Ctx |-> a]
    /\ inFlight = {}
    /\ flights = {}
    /\ calls = <<>>
    /\ started = 0
    /\ returned = <<>>
    /\ nextTok = FirstFreshTok
    /\ \E d \in DataObjects, field \in {"", "refresh_token"} :
          config = [logout |-> TRUE, custom |-> FALSE, policy |-> NoPolicy,
                    refreshData |-> d, refreshRequestField |-> field,
                    manager |-> 0]

RequestNext ==
    \/ \E c \in UserCtx, force \in BOOLEAN, data \in DataObjects :
          EnsureStart(c, force, data)
    \/ \E c \in UserCtx, rt \in KnownRefreshTokens, data \in DataObjects :
          RefreshStart(c, rt, data)

RequestSpec == RequestInit /\ [][RequestNext]_vars

(***************************************************************************)
(* The detector applied to response bodies, with and without a mapping     *)
(***************************************************************************)
BodyKeys ==
    {"access_token", "token", "refresh_token", "refresh", "expires_at", "exp",
     "expires_in", "type", "user"}

RawBodies ==
    {[k \in BodyKeys |->
        CASE k = "access_token" -> a1 [] k = "token" -> a2
          [] k = "refresh_token" -> r1 [] k = "refresh" -> Str(<<"S">>)
          [] k = "expires_at" -> e1 [] k = "exp" -> e2
          [] k = "expires_in" -> i1 [] k = "type" -> ty
          [] k = "user" -> u] :
        a1 \in {Undefined, Str(<<"A">>)}, a2 \in {Undefined, Str(<<"B">>)},
        r1 \in {Undefined, Str(<<"R">>)},
        e1 \in {Undefined, Num(4600), Str(<<"4", "6", "0", "0">>),
                Str(<<"s", "o", "o", "n">>)},
        e2 \in {Undefined, Num(5)},
        i1 \in {Undefined, Num(3600)},
        ty \in {Undefined, Str(<<"J", "W", "T">>)},
        u \in {Undefined, Obj(1)}}

NoMapping ==
    [accessToken |-> "", refreshToken |-> "", expiresAt |-> "",
     expiresIn |-> "", tokenType |-> "", sessionPayload |-> ""]

FieldMappings ==
    {NoMapping,
     [NoMapping EXCEPT !.accessToken = "token", !.refreshToken = "refresh",
                       !.expiresAt = "exp", !.tokenType = "type"]}

Detect(body, fieldMapping) ==
    /\ started < MaxCalls
    /\ started' = started + 1
    /\ returned' = <<[op |-> "autoDetectFields", body |-> body,
                      fieldMapping |-> fieldMapping, now |-> now,
                      bundle |-> detect(body, fieldMapping, now)]>>
    /\ UNCHANGED <<now, store, inFlight, flights, calls, nextTok, config>>

DetectorInit ==
    /\ now = Now0
    /\ store = [c \in Ctx |-> NoCookies]
    /\ inFlight = {}
    /\ flights = {}
    /\ calls = <<>>
    /\ started = 0
    /\ returned = <<>>
    /\ nextTok = FirstFreshTok
    /\ config = [logout |-> TRUE, custom |-> FALSE, policy |-> NoPolicy,
                 refreshData |-> NoData, refreshRequestField |-> "",
      manager |-> 0]

DetectorNext == \E body \in RawBodies, m \in FieldMappings : Detect(body, m)

DetectorSpec == DetectorInit /\ [][DetectorNext]_vars

(***************************************************************************)
(* client.ts: the URL of a request and its Authorization header.  A URL    *)
(* string is the sequence of its pieces: a scheme with its colon, "//", a  *)
(* piece of a host name, "@", a path segment.  Concatenating strings is    *)
(* concatenating the sequences.                                            *)
(***************************************************************************)
SchemePieces == {"https:", "http:", "HTTP:"}
HostPieces == {"api.myapp.com", "evil.com", ".evil.com"}
PathPieces == {"/me", "/v1", "/x", "httpbin"}

\* the scheme as the URL parser keeps it: in lower case
lowerCase(piece) == IF piece = "HTTP:" THEN "http:" ELSE piece

\* String.prototype.startsWith('http'), which tells upper from lower case
startsWithHttp(url) ==
    url # <<>> /\ url[1] \in {"https:", "http:", "httpbin"}

startsWithSlashes(url) == url # <<>> /\ url[1] = "//"

\* the authority of scheme://authority...: the pieces up to the first path
\* segment or "//"
RECURSIVE authorityLen(_)
authorityLen(rest) ==
    IF rest = <<>> \/ Head(rest) \in PathPieces \/ Head(rest) = "//" THEN 0
    ELSE 1 + authorityLen(Tail(rest))

\* a piece as it reads inside a host name: in lower case, a colon that
\* ends the authority being an empty port
lettersOf(piece) ==
    CASE piece = "https:" -> "https"
      [] piece \in {"http:", "HTTP:"} -> "http"
      [] OTHER -> piece

\* the host of an authority: what follows the last "@", read as one name
RECURSIVE hostOf(_)
hostOf(authority) ==
    IF authority = <<>> THEN ""
    ELSE IF \E i \in 1..Len(authority) : authority[i] = "@"
    THEN hostOf(Tail(authority))
    ELSE lettersOf(Head(authority)) \o hostOf(Tail(authority))

NoOrigin == [valid |-> FALSE, scheme |-> "", host |-> ""]

\* new URL(url).origin; an invalid URL has none
originOf(url) ==
    IF Len(url) >= 3 /\ url[1] \in SchemePieces /\ url[2] = "//"
    THEN LET rest == SubSeq(url, 3, Len(url))
             host == hostOf(SubSeq(rest, 1, authorityLen(rest)))
         IN  IF host = "" THEN NoOrigin
             ELSE [valid |-> TRUE, scheme |-> lowerCase(url[1]), host |-> host]
    ELSE NoOrigin

\* new URL(url, base).origin: base is parsed first (an invalid base throws,
\* whatever url is); an absolute url stands for itself, "//host..." takes
\* the scheme of base, anything else stays on the origin of base
originWithBase(url, base) ==
    IF ~ originOf(base).valid THEN NoOrigin
    ELSE IF originOf(url).valid THEN originOf(url)
    ELSE IF startsWithSlashes(url)
    THEN originOf(<<base[1]>> \o url)
    ELSE originOf(base)

\* lines 691-692
buildURL(url, baseURL) ==
    IF startsWithHttp(url) THEN url ELSE baseURL \o url

\* lines 731-740
isSafeURL(url, baseURL) ==
    LET requestUrl == originWithBase(url, baseURL)
        baseUrl == originOf(IF baseURL = <<>>
                            THEN <<"http:", "//", "localhost">> ELSE baseURL)
    IN  IF requestUrl.valid /\ baseUrl.valid
        THEN requestUrl = baseUrl
        ELSE ~ startsWithHttp(url) /\ ~ startsWithSlashes(url)

\* lines 709-726; the Authorization header is the access token as
\* injectToken formats it, Absent: no such header
buildHeaders(skipAuth, tokens, targetURL) ==
    IF /\ config.auth /\ ~ skipAuth /\ isSafeURL(targetURL, config.baseURL)
       /\ getSession(tokens).kind = "session"
    THEN [Authorization |-> getSession(tokens).accessToken]
    ELSE [Authorization |-> Absent]

BaseURLs ==
    {<<>>, <<"https:", "//", "api.myapp.com">>,
     <<"https:", "//", "api.myapp.com", "/v1">>}

RequestURLs ==
    {<<"/me">>, <<"https:", "//", "api.myapp.com", "/me">>,
     <<"http:", "//", "api.myapp.com", "/me">>,
     <<"https:", "//", "evil.com", "/x">>,
     <<"HTTP:", "//", "evil.com", "/x">>,
     <<"//", "evil.com", "/x">>, <<".evil.com", "/x">>,
     <<"@", "evil.com", "/x">>, <<"httpbin">>}

\* executeRequest (lines 548-592) on a record for which ensure() sends no
\* request: the URL is built, the headers are built for it, it is fetched
ApiRequest(c, url, skipAuth) ==
    /\ started < MaxCalls
    /\ started' = started + 1
    /\ LET fullURL == buildURL(url, config.baseURL)
       IN  returned' =
             <<[op |-> "request", ctx |-> c, url |-> url, skipAuth |-> skipAuth,
                fullURL |-> fullURL,
                headers |-> buildHeaders(skipAuth, retrieveTokens(store[c]),
                                         fullURL)]>>
    /\ UNCHANGED <<now, store, inFlight, flights, calls, nextTok, config>>

\* a valid session, no cookies, or the access token and its expiry alone
ClientJars ==
    {UserA(Now0 + 3600, Absent), NoCookies,
     [UserA(Now0 + 3600, Absent) EXCEPT !.refreshToken = Absent]}

ClientInit ==
    /\ now = Now0
    /\ store \in {[c \in Ctx |-> jar] : jar \in ClientJars}
    /\ inFlight = {}
    /\ flights = {}
    /\ calls = <<>>
    /\ started = 0
    /\ returned = <<>>
    /\ nextTok = FirstFreshTok
    /\ config \in {[logout |-> TRUE, custom |-> FALSE, policy |-> NoPolicy,
                     refreshData |-> NoData, refreshRequestField |-> "",
                     manager |-> 0, baseURL |-> b, auth |-> a] :
                        b \in BaseURLs, a \in BOOLEAN}

ClientNext ==
    \E c \in UserCtx, url \in RequestURLs, skipAuth \in BOOLEAN :
        ApiRequest(c, url, skipAuth)

ClientSpec == ClientInit /\ [][ClientNext]_vars

(***************************************************************************)
(* storage.ts called under several cookie configurations on one ctx: the   *)
(* cookies of ctx c are store[c], and returned keeps the calls made so     *)
(* far, each with the cookies before and after it.                         *)
(***************************************************************************)
Prefixes == {"", "a", "b"}

StorableBundles ==
    {[accessToken |-> Str(<<"A">>), refreshToken |-> Str(<<"R">>),
      accessExpiresAt |-> Num(Now0 + 3600)],
     [accessToken |-> Str(<<"B">>), refreshToken |-> Str(<<"S">>),
      accessExpiresAt |-> Fraction(Now0 + 3600, <<"5">>)]}

NothingStored ==
    [accessToken |-> Undefined, refreshToken |-> Undefined,
     accessExpiresAt |-> Undefined]

NoTokens ==
    [accessToken |-> NullValue, refreshToken |-> NullValue,
     expiresAt |-> NullValue, lastRefreshAt |-> NullValue]

StorageCall(op, c, prefix, bundle, result, after) ==
    [op |-> op, ctx |-> c, prefix |-> prefix, bundle |-> bundle,
     result |-> result, before |-> store[c], after |-> after]

StorageStep(op, c, prefix, bundle, result, after) ==
    /\ started < MaxCalls
    /\ started' = started + 1
    /\ store' = [store EXCEPT ![c] = after]
    /\ returned' = Append(returned,
                          StorageCall(op, c, prefix, bundle, result, after))
    /\ UNCHANGED <<now, inFlight, flights, calls, nextTok, config>>

StoreTokens(c, prefix, bundle) ==
    StorageStep("storeTokens", c, prefix, bundle, NoTokens,
                storeCookies(store[c], bundle, prefix, now))

RetrieveTokens(c, prefix) ==
    StorageStep("retrieveTokens", c, prefix, NothingStored,
                retrieveCookies(store[c], prefix), store[c])

ClearTokens(c, prefix) ==
    StorageStep("clearTokens", c, prefix, NothingStored, NoTokens,
                clearCookies(store[c], prefix))

StorageInit ==
    /\ now = Now0
    /\ store = [c \in Ctx |-> {}]
    /\ inFlight = {}
    /\ flights = {}
    /\ calls = <<>>
    /\ started = 0
    /\ returned = <<>>
    /\ nextTok = FirstFreshTok
    /\ config = [logout |-> TRUE, custom |-> FALSE, policy |-> NoPolicy,
                 refreshData |-> NoData, refreshRequestField |-> "",
      manager |-> 0]

StorageNext ==
    \/ \E c \in UserCtx, prefix \in Prefixes, bundle \in StorableBundles :
          StoreTokens(c, prefix, bundle)
    \/ \E c \in UserCtx, prefix \in Prefixes : RetrieveTokens(c, prefix)
    \/ \E c \in UserCtx, prefix \in Prefixes : ClearTokens(c, prefix)

StorageSpec == StorageInit /\ [][StorageNext]_vars


(***************************************************************************)
(* Vocabulary of the properties                                            *)
(***************************************************************************)
Suspended == 1..Len(calls)
Returning == 1..Len(returned)
SuspendedEnsure == {i \in Suspended : calls[i].op = "ensure"}
ReturningEnsure == {k \in Returning : returned[k].op = "ensure"}
ReturningRefresh == {k \in Returning : returned[k].op = "refresh"}

\* the record as the spec classifies it, under the default policy
JarLacks(jar) ==
    \/ jar.accessToken \in {Absent, 0}
    \/ jar.refreshToken \in {Absent, 0}
    \/ jar.expiresAt \in {Absent, 0}
RecExpired(exp) == now + DEFAULT_clockSkew > exp
RecNotDue(exp, last) ==
    \/ exp - (now + DEFAULT_clockSkew) > DEFAULT_refreshBefore
    \/ (last # Absent /\ now - last < DEFAULT_minInterval)

\* what a call (suspended or returning) read when it started
ReadComplete(call) == ~ JarLacks(call.tokens)
ReadExpired(call) == ReadComplete(call) /\ RecExpired(call.tokens.expiresAt)
ReadValidNotDue(call) ==
    /\ ReadComplete(call)
    /\ ~ RecExpired(call.tokens.expiresAt)
    /\ RecNotDue(call.tokens.expiresAt, call.tokens.lastRefreshAt)
ReadDue(call) ==
    /\ ReadComplete(call)
    /\ ~ RecExpired(call.tokens.expiresAt)
    /\ ~ RecNotDue(call.tokens.expiresAt, call.tokens.lastRefreshAt)
ForcedOrExpired(call) ==
    ReadComplete(call) /\ (call.force \/ RecExpired(call.tokens.expiresAt))

\* the suspended ensure() calls that read refresh token rt, and the
\* requests the coordinator has in flight for it
AwaitingOn(rt) == {i \in SuspendedEnsure : calls[i].tokens.refreshToken = rt}
CoordinatedFor(rt) == {f \in flights : f.viaSF /\ f.rt = rt}

(***************************************************************************)
(* C1  Single-flight collapse: ensure() calls that read a complete Expired *)
(* record with the same refresh token and are under way together (the     *)
(* later ones started before the refresh of the first settled) await one   *)
(* refresh request, the only one sent for that token, and they end in the  *)
(* same turn; when the refresh succeeds each resolves with a Session made  *)
(* of its bundle, whose access token is new.                               *)
(***************************************************************************)
C1_SingleFlightCollapse ==
    /\ \A i, j \in SuspendedEnsure :
          (/\ ReadExpired(calls[i]) /\ ReadExpired(calls[j])
           /\ calls[i].tokens.refreshToken = calls[j].tokens.refreshToken)
          => /\ calls[i].flight = calls[j].flight
             /\ Cardinality(CoordinatedFor(calls[i].tokens.refreshToken)) = 1
             /\ Cardinality({k \in AwaitingOn(calls[i].tokens.refreshToken) :
                                calls[k].sent = 1}) = 1
    /\ \A k \in ReturningEnsure :
          (ReadExpired(returned[k]) /\ returned[k].refresh.status = "ok")
          => /\ returned[k].result = SessionOfBundle(returned[k].refresh.bundle)
             /\ returned[k].result.accessToken # returned[k].tokens.accessToken
    /\ \A i \in SuspendedEnsure : \A k \in ReturningEnsure :
          (ReadExpired(calls[i]) /\ ReadExpired(returned[k]))
          => calls[i].tokens.refreshToken # returned[k].tokens.refreshToken

C1_Witness ==
    \E k, l \in ReturningEnsure :
        /\ k < l
        /\ ~ returned[k].force /\ ~ returned[l].force
        /\ ReadExpired(returned[k]) /\ ReadExpired(returned[l])
        /\ returned[k].tokens.refreshToken = returned[l].tokens.refreshToken
        /\ returned[k].result.kind = "session"
        /\ returned[l].result = returned[k].result
        /\ returned[k].sent + returned[l].sent = 1
        /\ flights = {}

(***************************************************************************)
(* C2 as claimed: at every instant at most one refresh request per         *)
(* refresh-token value is in flight, counting direct refresh() calls.      *)
(***************************************************************************)
C2_OnePerTokenAnyCaller ==
    \A f, g \in flights : f.rt = g.rt => f = g

(***************************************************************************)
(* C2 amended: at every instant at most one refresh request started by     *)
(* ensure() (forced or not) is in flight per refresh-token value; a direct *)
(* refresh() call does not pass through the coordinator.                   *)
(***************************************************************************)
C2_OnePerTokenEnsure ==
    \A f, g \in flights : (f.viaSF /\ g.viaSF /\ f.rt = g.rt) => f = g

C2_Witness ==
    \E i, j \in SuspendedEnsure :
        /\ calls[i].force /\ ~ calls[j].force
        /\ calls[i].flight = calls[j].flight
        /\ \E g \in flights :
              ~ g.viaSF /\ g.rt = calls[i].tokens.refreshToken

(***************************************************************************)
(* C3  Isolation: two ensure() calls under way with different refresh      *)
(* tokens never share a flight: each awaits a request made for the token   *)
(* it read itself, and returns when that request settles, whatever the     *)
(* other one does.                                                         *)
(***************************************************************************)
C3_Isolation ==
    /\ \A i, j \in SuspendedEnsure :
          calls[i].tokens.refreshToken # calls[j].tokens.refreshToken
          => /\ calls[i].flight # calls[j].flight
             /\ FlightOf(calls[i].flight).rt = calls[i].tokens.refreshToken
             /\ FlightOf(calls[j].flight).rt = calls[j].tokens.refreshToken
    /\ \A k \in ReturningEnsure :
          returned[k].refresh.status # "none"
          => returned[k].refresh.rt = returned[k].tokens.refreshToken

C3_Witness ==
    \E i, j \in SuspendedEnsure :
        /\ calls[i].tokens.refreshToken # calls[j].tokens.refreshToken
        /\ calls[i].flight # calls[j].flight
        /\ calls[i].sent = 1 /\ calls[j].sent = 1
        /\ {calls[i].flight, calls[j].flight} \subseteq FlightIds

(***************************************************************************)
(* C4  Authoritative invalidation: when the refresh endpoint answers 401   *)
(* or 403, refresh() returns null (it does not throw) and the four cookies *)
(* of the ctx it was called with are cleared when it returns.              *)
(***************************************************************************)
C4_AuthoritativeInvalidation ==
    \A k \in ReturningRefresh :
        returned[k].refresh.outcome \in {"401", "403"}
        => /\ returned[k].result = NullResult
           /\ store[returned[k].ctx] = NoCookies

C4_Witness ==
    \E k \in ReturningRefresh :
        /\ returned[k].refresh.outcome = "403"
        /\ returned[k].result.kind = "null"
        /\ store[returned[k].ctx] = NoCookies

C6_OnlyCompleteBundlesPersisted ==
    [][\A c \in Ctx :
          store'[c] # store[c] =>
              (store'[c] = NoCookies \/ ~ JarLacks(store'[c]))]_vars

(***************************************************************************)
(* C7  ensure() on a record that lacks the access token, the refresh token *)
(* or the expiry returns null without awaiting anything and sends no       *)
(* request, whatever force is.                                             *)
(***************************************************************************)
C7_AbsentReturnsNull ==
    /\ \A k \in ReturningEnsure :
          JarLacks(returned[k].tokens)
          => /\ returned[k].result = NullResult
             /\ returned[k].sent = 0
             /\ returned[k].refresh = NoRefresh
    /\ \A i \in SuspendedEnsure : ~ JarLacks(calls[i].tokens)

C7_Witness ==
    \E k \in ReturningEnsure :
        /\ returned[k].force
        /\ returned[k].tokens.refreshToken # Null
        /\ JarLacks(returned[k].tokens)
        /\ JarLacks(store[returned[k].ctx])
        /\ returned[k].result = NullResult
        /\ flights = {}

(***************************************************************************)
(* C8  ensure() on a complete record with force, or on an Expired one,     *)
(* awaits the coordinator's flight for the refresh token it read and       *)
(* returns what that refresh returned: null when the refresh returned      *)
(* null, and otherwise a Session made of the bundle of that refresh, never *)
(* one made of the access token it read.                                   *)
(***************************************************************************)
C8_ForcedOrExpired ==
    /\ \A i \in SuspendedEnsure :
          ForcedOrExpired(calls[i])
          => <<createFlightKey(calls[i].tokens.refreshToken), calls[i].flight>>
                 \in inFlight
    /\ \A k \in ReturningEnsure :
          ForcedOrExpired(returned[k])
          => /\ returned[k].refresh.rt = returned[k].tokens.refreshToken
             /\ (returned[k].refresh.status = "null")
                    <=> (returned[k].result = NullResult)
             /\ (returned[k].refresh.status = "ok")
                    <=> (returned[k].result.kind = "session")
             /\ returned[k].result.kind = "session"
                => /\ returned[k].result =
                         SessionOfBundle(returned[k].refresh.bundle)
                   /\ returned[k].result.accessToken
                         # returned[k].tokens.accessToken

C8_Witness ==
    \E k \in ReturningEnsure :
        /\ returned[k].force
        /\ ReadComplete(returned[k])
        /\ ~ RecExpired(returned[k].tokens.expiresAt)
        /\ returned[k].refresh.status = "ok"
        /\ returned[k].result.kind = "session"
        /\ returned[k].result.accessToken # returned[k].tokens.accessToken
        /\ store[returned[k].ctx].accessToken = returned[k].result.accessToken

(***************************************************************************)
(* C9 as claimed: in the proactive path, when the refresh returned null    *)
(* and the store still holds an access token at the re-check, the Session  *)
(* returned is made of the values the store holds at that re-check.        *)
(***************************************************************************)
C9_FreshestRead ==
    \A k \in ReturningEnsure :
        (/\ ~ returned[k].force
         /\ ReadDue(returned[k])
         /\ returned[k].refresh.status = "null"
         /\ store[returned[k].ctx].accessToken \notin {Absent, 0})
        => returned[k].result = Session(store[returned[k].ctx].accessToken,
                                        store[returned[k].ctx].expiresAt)

(***************************************************************************)
(* C10  Idempotent no-op: ensure() without force on a record that is Valid *)
(* and not due for proactive refresh returns at once, having sent no       *)
(* request, a Session with exactly the stored accessToken and expiresAt,   *)
(* and the four stored values are as it read them.                         *)
(***************************************************************************)
C10_IdempotentNoOp ==
    /\ \A k \in ReturningEnsure :
          (~ returned[k].force /\ ReadValidNotDue(returned[k]))
          => /\ returned[k].result = Session(returned[k].tokens.accessToken,
                                             returned[k].tokens.expiresAt)
             /\ returned[k].sent = 0
             /\ returned[k].refresh = NoRefresh
             /\ store[returned[k].ctx] = returned[k].tokens
    /\ \A i \in SuspendedEnsure :
          ~ (~ calls[i].force /\ ReadValidNotDue(calls[i]))

C10_Witness ==
    \E k \in ReturningEnsure :
        /\ ~ returned[k].force
        /\ returned[k].tokens.lastRefreshAt # Null
        /\ returned[k].tokens.expiresAt - (now + DEFAULT_clockSkew)
              <= DEFAULT_refreshBefore
        /\ ~ RecExpired(returned[k].tokens.expiresAt)
        /\ returned[k].result = Session(store[returned[k].ctx].accessToken,
                                        store[returned[k].ctx].expiresAt)
        /\ flights = {}

(***************************************************************************)
(* C11  A request never blocks on a refresh unless its own token is due:   *)
(* an ensure() call without force is suspended only if the record it read  *)
(* is Expired or due for proactive refresh; on a Valid record that is not  *)
(* due it returns a Session having awaited nothing, even while a refresh   *)
(* for the same refresh token is in flight.                                *)
(***************************************************************************)
C11_NeverBlocksUnlessDue ==
    /\ \A i \in SuspendedEnsure :
          ~ calls[i].force => (ReadExpired(calls[i]) \/ ReadDue(calls[i]))
    /\ \A k \in ReturningEnsure :
          (~ returned[k].force /\ ReadValidNotDue(returned[k]))
          => /\ returned[k].refresh = NoRefresh
             /\ returned[k].result.kind = "session"

C11_Witness ==
    \E k \in ReturningEnsure :
        /\ ~ returned[k].force
        /\ ReadValidNotDue(returned[k])
        /\ returned[k].refresh = NoRefresh
        /\ returned[k].result.kind = "session"
        /\ CoordinatedFor(returned[k].tokens.refreshToken) # {}

ReturningLogout == {k \in Returning : returned[k].op = "logout"}

(***************************************************************************)
(* C12  Logout always clears: logout() returns (it never throws) and the   *)
(* four cookies of the ctx are removed, whether no logout endpoint is      *)
(* configured, or the endpoint succeeds, answers an error status, fails    *)
(* with a network error or times out.                                      *)
(***************************************************************************)
C12_LogoutAlwaysClears ==
    \A k \in ReturningLogout :
        /\ returned[k].result = ErrorResult("void")
        /\ store[returned[k].ctx] = NoCookies

C12_Witness ==
    \E k \in ReturningLogout :
        /\ returned[k].path = "transport"
        /\ ~ JarLacks(returned[k].tokens)
        /\ returned[k].result.kind = "void"
        /\ store[returned[k].ctx] = NoCookies

ReturningGetSession == {k \in Returning : returned[k].op = "getSession"}

(***************************************************************************)
(* C13 as claimed: a read of the record that finds fewer than all three of *)
(* accessToken, refreshToken and expiresAt is treated as no session: both  *)
(* ensure() and getSession() return null for such a record.                *)
(***************************************************************************)
C13_IncompleteIsNoSession ==
    \A k \in ReturningEnsure \cup ReturningGetSession :
        JarLacks(returned[k].tokens) => returned[k].result = NullResult

ReturningIsAuthenticated ==
    {k \in Returning : returned[k].op = "isAuthenticated"}

(***************************************************************************)
(* C14  isAuthenticated(ctx) is true if and only if the access-token and   *)
(* the refresh-token cookies both hold a value, whatever the stored expiry *)
(* is (absent, zero, past or future).                                      *)
(***************************************************************************)
C14_IsAuthenticatedIffBothTokens ==
    \A k \in ReturningIsAuthenticated :
        returned[k].result =
            BoolResult(/\ store[returned[k].ctx].accessToken \notin {Absent, 0}
                       /\ store[returned[k].ctx].refreshToken \notin {Absent, 0})

C14_Witness ==
    \E k \in ReturningIsAuthenticated :
        /\ returned[k].result = BoolResult(TRUE)
        /\ store[returned[k].ctx].expiresAt < now

(***************************************************************************)
(* C15  Once the operation of a key settles, by success or by failure, the *)
(* key is evicted: every key in the map of SingleFlight stands for an      *)
(* operation that is still pending, every suspended ensure() awaits a      *)
(* pending operation for the token it read, and a call that ends leaves    *)
(* the key of the refresh it awaited free, so the next execute() for the   *)
(* key starts its operation anew.                                          *)
(***************************************************************************)
C15_KeyEvictedOnSettle ==
    /\ \A e \in inFlight :
          /\ e[2] \in FlightIds
          /\ FlightOf(e[2]).viaSF
          /\ createFlightKey(FlightOf(e[2]).rt) = e[1]
    /\ \A i \in SuspendedEnsure :
          /\ calls[i].flight \in FlightIds
          /\ inFlightGet(createFlightKey(calls[i].tokens.refreshToken))
                = calls[i].flight
    /\ \A k \in ReturningEnsure :
          returned[k].refresh.status # "none"
          => ~ Joins(createFlightKey(returned[k].refresh.rt))

C15_Witness ==
    \E k \in ReturningEnsure :
        /\ returned[k].refresh.status = "err"
        /\ ~ Joins(createFlightKey(returned[k].refresh.rt))
        /\ \E c \in Ctx :
              store[c].refreshToken = returned[k].refresh.rt

(***************************************************************************)
(* Policy values as the spec reads them: a field left out takes its        *)
(* default, a number is a count of seconds, '0s' is 0 s, '2m' is 120 s and *)
(* '10m' is 600 s.                                                         *)
(***************************************************************************)
ReturningIsExpired == {k \in Returning : returned[k].op = "isExpired"}
ReturningShouldRefresh == {k \in Returning : returned[k].op = "shouldRefresh"}

Stated(v) ==
    v \in {Undefined, Num(0), Num(120), Str(<<"0", "s">>), Str(<<"2", "m">>),
           Str(<<"1", "0", "m">>)}

SecondsOf(v, default) ==
    CASE v = Undefined -> default
      [] v = Num(0) -> 0
      [] v = Num(120) -> 120
      [] v = Str(<<"0", "s">>) -> 0
      [] v = Str(<<"2", "m">>) -> 120
      [] v = Str(<<"1", "0", "m">>) -> 600

NonZero(v) == Stated(v) /\ v # Num(0)

(***************************************************************************)
(* C16 as claimed: isExpired(expiresAt, now, policy) is true if and only   *)
(* if now + clockSkew > expiresAt, clockSkew being the configured value    *)
(* (a number, 0 included, or a duration string) and 60 s only when the     *)
(* policy leaves it out.                                                   *)
(***************************************************************************)
C16_IsExpiredConfiguredSkew ==
    \A k \in ReturningIsExpired :
        (Stated(config.policy.clockSkew) /\ ~ policyThrows(config.policy))
        => returned[k].result =
              BoolResult(now + SecondsOf(config.policy.clockSkew,
                                         DEFAULT_clockSkew)
                            > returned[k].tokens.expiresAt)

RefreshedLately(call) ==
    /\ call.tokens.lastRefreshAt # Null
    /\ now - call.tokens.lastRefreshAt < DEFAULT_minInterval

C18_ReactiveIgnoresMinInterval ==
    \A k \in ReturningEnsure :
        (ReadExpired(returned[k]) /\ RefreshedLately(returned[k]))
        => /\ returned[k].refresh.status # "none"
           /\ returned[k].refresh.rt = returned[k].tokens.refreshToken

C18_Witness ==
    \E k \in ReturningEnsure :
        /\ ~ returned[k].force
        /\ ReadExpired(returned[k]) /\ RefreshedLately(returned[k])
        /\ returned[k].sent = 1
        /\ returned[k].refresh.status = "ok"
        /\ returned[k].result.kind = "session"

(***************************************************************************)
(* C19 as claimed: a malformed duration string in a policy field is        *)
(* rejected when the manager is constructed, so that no ensure() call      *)
(* fails because of a malformed policy value.                              *)
(***************************************************************************)
C19_NoDeferredPolicyError ==
    \A k \in ReturningEnsure : returned[k].result # ErrorResult("Error")

(***************************************************************************)
(* A login that succeeded: the response was 2xx and the parser returned a  *)
(* bundle (path "ok").                                                     *)
(***************************************************************************)
ReturningLogin == {k \in Returning : returned[k].op = "login"}
LoginSucceeded == {k \in ReturningLogin : returned[k].path = "ok"}

HoldsBundle(jar, bundle) ==
    /\ jar.accessToken = bundle.accessToken
    /\ jar.refreshToken = bundle.refreshToken
    /\ jar.expiresAt = bundle.accessExpiresAt

(***************************************************************************)
(* C20  On a successful login the bundle is persisted first, then the      *)
(* onLogin hook, when supplied, is invoked exactly once with (bundle, raw  *)
(* body, ctx): it is the only hook invocation of the call, it finds the    *)
(* bundle in the store of the ctx, its bundle is the one the parser made   *)
(* of its body and the one login() stored; onError is never invoked; and   *)
(* login() rejects with the error of the hook exactly when the hook threw, *)
(* returning the bundle otherwise.                                         *)
(***************************************************************************)
C20_OnLoginAfterPersist ==
    \A k \in LoginSucceeded :
        LET r == returned[k]
        IN  /\ \A j \in 1..Len(r.hooks) : r.hooks[j].name # "onError"
            /\ Len(r.hooks) = IF r.options.onLogin THEN 1 ELSE 0
            /\ r.options.onLogin
               => LET h == r.hooks[1]
                  IN  /\ h.name = "onLogin"
                      /\ h.ctx = r.ctx
                      /\ HoldsBundle(h.jar, h.bundle)
                      /\ HoldsBundle(store[r.ctx], h.bundle)
                      /\ ~ config.custom
                         => BundleOf(autoDetectFields(h.body, now)) = h.bundle
                      /\ r.result = IF h.threw THEN HookError
                                    ELSE BundleResult(h.bundle)
            /\ ~ r.options.onLogin
               => /\ r.result.kind = "bundle"
                  /\ store[r.ctx].accessToken = r.result.accessToken

C20_Witness ==
    \E k \in LoginSucceeded :
        /\ returned[k].options.onLogin /\ returned[k].options.onError
        /\ returned[k].hooks[1].threw
        /\ returned[k].result = HookError
        /\ store[returned[k].ctx].accessToken
              = returned[k].hooks[1].bundle.accessToken

(***************************************************************************)
(* A login that failed by a non-2xx response or by a transport failure     *)
(***************************************************************************)
LoginFailed == {k \in ReturningLogin : returned[k].path \in LoginOutcomes}

\* the AuthError carries the HTTP status, respectively the original error,
\* and the onError hook, when supplied, was invoked once with it and the ctx
CarriesAndReports(r) ==
    /\ r.error.name = "AuthError"
    /\ r.path = "non2xx" => r.error.status = 400
    /\ r.path = "transport" => r.error.cause = "fetch error"
    /\ Len(r.hooks) = IF r.options.onError THEN 1 ELSE 0
    /\ r.options.onError
       => /\ r.hooks[1].name = "onError"
          /\ r.hooks[1].error = r.error
          /\ r.hooks[1].ctx = r.ctx

(***************************************************************************)
(* C21 as claimed: every failed login, by a non-2xx response or by a       *)
(* transport failure, rejects with an AuthError (carrying the HTTP status, *)
(* respectively the original error as cause), the onError hook, when       *)
(* supplied, having been invoked exactly once with that error and the ctx. *)
(***************************************************************************)
C21_AlwaysAuthError ==
    \A k \in LoginFailed :
        /\ CarriesAndReports(returned[k])
        /\ returned[k].result = ErrorResult("AuthError")

(***************************************************************************)
(* C21  Every failed login, by a non-2xx response or by a transport        *)
(* failure, builds an AuthError (carrying the HTTP status, respectively    *)
(* the original error as cause) and invokes the onError hook, when         *)
(* supplied, exactly once with that error and the ctx; login() then        *)
(* rejects with that AuthError, unless the onError hook itself threw, in   *)
(* which case login() rejects with the error of the hook.                  *)
(***************************************************************************)
C21_AuthErrorUnlessHookThrows ==
    \A k \in LoginFailed :
        /\ CarriesAndReports(returned[k])
        /\ returned[k].result =
              IF returned[k].options.onError /\ returned[k].hooks[1].threw
              THEN HookError
              ELSE ErrorResult("AuthError")

C21_Witness ==
    \E k \in LoginFailed :
        /\ returned[k].path = "non2xx"
        /\ returned[k].options.onError
        /\ returned[k].hooks[1].error = AuthError(400, "none")
        /\ ~ returned[k].hooks[1].threw
        /\ returned[k].result = ErrorResult("AuthError")

(***************************************************************************)
(* C22  The body of every refresh request holds the refresh-token field    *)
(* (config.refreshRequestField, 'refreshToken' by default) set to the      *)
(* refresh token being exchanged, once, whatever the configured refresh    *)
(* data and the per-request data define under that name.                   *)
(***************************************************************************)
C22_TokenFieldNotOverridable ==
    \A f \in flights :
        /\ <<refreshField, f.rt>> \in f.body
        /\ \A e \in f.body : e[1] = refreshField => e[2] = f.rt

C22_Witness ==
    \E f \in flights :
        /\ config.refreshData[refreshField] = 9
        /\ f.data[refreshField] = 9
        /\ f.body = {<<refreshField, f.rt>>}

(***************************************************************************)
(* The bundle the detector returned for a body and a mapping               *)
(***************************************************************************)
Detected ==
    {k \in DOMAIN returned :
        returned[k].op = "autoDetectFields" /\ ~ returned[k].bundle.threw}

MappingHit(r, logical) ==
    /\ r.fieldMapping[logical] # ""
    /\ Field(r.body, r.fieldMapping[logical]) # Undefined

Mapped(r, logical) == Field(r.body, r.fieldMapping[logical])

(***************************************************************************)
(* C23 as claimed: for every logical field the detector handles, a mapping *)
(* that names a field present in the body decides the value in the         *)
(* returned bundle (the absolute expiry as a number), whatever aliases are *)
(* present; without a mapping hit the first alias present, in list order,  *)
(* decides it.                                                             *)
(***************************************************************************)
C23_MappingThenFirstAlias ==
    \A k \in Detected :
        LET r == returned[k]
            b == r.bundle
        IN  /\ MappingHit(r, "accessToken")
               => b.accessToken = Mapped(r, "accessToken")
            /\ MappingHit(r, "refreshToken")
               => b.refreshToken = Mapped(r, "refreshToken")
            /\ MappingHit(r, "expiresAt")
               => b.accessExpiresAt = numberOrParseInt(Mapped(r, "expiresAt"))
            /\ MappingHit(r, "sessionPayload")
               => b.sessionPayload = Mapped(r, "sessionPayload")
            /\ MappingHit(r, "tokenType")
               => b.tokenType = Mapped(r, "tokenType")
            /\ (~ MappingHit(r, "accessToken")
                    /\ r.body["access_token"] # Undefined)
               => b.accessToken = r.body["access_token"]
            /\ (~ MappingHit(r, "refreshToken")
                    /\ r.body["refresh_token"] # Undefined)
               => b.refreshToken = r.body["refresh_token"]
            /\ (~ MappingHit(r, "sessionPayload")
                    /\ r.body["user"] # Undefined)
               => b.sessionPayload = r.body["user"]

(***************************************************************************)
(* C24 as claimed: an absolute expiry field, when present, gives           *)
(* accessExpiresAt; only when none is present the relative value is added  *)
(* to the current seconds; when neither is found the detector fails; and   *)
(* the accessExpiresAt of a returned bundle is a number of seconds.        *)
(***************************************************************************)
AbsolutePresent(r) ==
    \/ MappingHit(r, "expiresAt")
    \/ r.body["expires_at"] # Undefined
    \/ r.body["exp"] # Undefined

RelativePresent(r) ==
    MappingHit(r, "expiresIn") \/ r.body["expires_in"] # Undefined

C24_ExpiryIsSeconds ==
    \A k \in DOMAIN returned :
        LET r == returned[k]
        IN  r.op = "autoDetectFields"
            => /\ (~ AbsolutePresent(r) /\ ~ RelativePresent(r))
                  => r.bundle.threw
               /\ ~ r.bundle.threw
                  => /\ r.bundle.accessExpiresAt.type = "number"
                     /\ (~ AbsolutePresent(r) /\ RelativePresent(r))
                        => r.bundle.accessExpiresAt.num >= r.now

(***************************************************************************)
(* C25: storing a bundle and reading it back under the same cookie         *)
(* configuration on the same ctx returns the identical access token,       *)
(* refresh token and numeric expiry.  The expiry is written with           *)
(* toString() and read with parseInt(), so this holds of an expiry that is *)
(* a whole number of seconds; a fraction of a second is cut off.           *)
(***************************************************************************)
\* the call at j reads what the call at i stored: same configuration, and
\* no call under that configuration between them
ReadsBack(i, j) ==
    /\ i < j
    /\ returned[i].op = "storeTokens"
    /\ returned[j].op = "retrieveTokens"
    /\ returned[j].ctx = returned[i].ctx
    /\ returned[j].prefix = returned[i].prefix
    /\ \A k \in (i + 1)..(j - 1) : returned[k].prefix # returned[i].prefix

Identical(bundle, tokens) ==
    /\ tokens.accessToken = bundle.accessToken
    /\ tokens.refreshToken = bundle.refreshToken
    /\ tokens.expiresAt = bundle.accessExpiresAt

WholeSeconds(bundle) == bundle.accessExpiresAt.str = <<>>

\* C25 as stated: every stored bundle is read back identical.
C25_RoundTrip ==
    \A i, j \in 1..Len(returned) :
        ReadsBack(i, j) => Identical(returned[i].bundle, returned[j].result)

\* C25 as amended: every stored bundle whose expiry is a whole number of
\* seconds is read back identical.
C25_RoundTripWholeSeconds ==
    \A i, j \in 1..Len(returned) :
        ReadsBack(i, j) /\ WholeSeconds(returned[i].bundle)
            => Identical(returned[i].bundle, returned[j].result)

C25_Witness ==
    \E i, j \in 1..Len(returned) :
        /\ ReadsBack(i, j)
        /\ j > i + 1
        /\ WholeSeconds(returned[i].bundle)
        /\ returned[j].result.expiresAt = Num(Now0 + 3600)
        /\ returned[j].result.accessToken = Str(<<"A">>)

(***************************************************************************)
(* C26: two cookie configurations with different prefixes on one ctx are   *)
(* independent: a call under one prefix leaves every cookie of every other *)
(* prefix as it was, and what it reads depends on its own cookies only.    *)
(***************************************************************************)
CookieNamesOf(prefix) ==
    {getCookieNames(prefix)[f] : f \in DOMAIN getCookieNames(prefix)}

CookiesOf(jar, prefix) == {e \in jar : e[1] \in CookieNamesOf(prefix)}

C26_PrefixesIndependent ==
    \A j \in 1..Len(returned) :
        LET r == returned[j]
        IN  /\ \A q \in Prefixes \ {r.prefix} :
                  CookiesOf(r.after, q) = CookiesOf(r.before, q)
            /\ r.op = "retrieveTokens" =>
                  r.result = retrieveCookies(CookiesOf(r.before, r.prefix),
                                             r.prefix)

C26_Witness ==
    /\ Len(returned) = 3
    /\ returned[1].op = "storeTokens" /\ returned[1].prefix = "a"
    /\ returned[2].op = "storeTokens" /\ returned[2].prefix = ""
    /\ returned[2].bundle # returned[1].bundle
    /\ returned[3].op = "retrieveTokens" /\ returned[3].prefix = "a"
    /\ returned[3].result.accessToken = returned[1].bundle.accessToken

(***************************************************************************)
(* C27: no operation is retried by the manager: a call of login(),         *)
(* refresh(), logout() or ensure() sends at most one request, whatever the *)
(* answer; every refresh request in flight is the one request of one call  *)
(* that still waits for it.                                                *)
(***************************************************************************)
Senders ==
    {i \in 1..Len(calls) :
        calls[i].op \in {"ensure", "refresh"} /\ calls[i].sent = 1}

C27_NoRetry ==
    /\ \A i \in 1..Len(calls) : calls[i].sent <= 1
    /\ \A k \in 1..Len(returned) : returned[k].sent <= 1
    /\ \A f \in flights :
          Cardinality({i \in Senders : Awaits(calls[i], f)}) = 1
    /\ Cardinality(flights) = Cardinality(Senders)

\* an ensure() that sent the refresh request returns after it failed, and
\* no request is in flight
C27_Witness ==
    \E k \in 1..Len(returned) :
        /\ returned[k].op = "ensure"
        /\ returned[k].sent = 1
        /\ returned[k].refresh.status = "err"
        /\ flights = {}

(***************************************************************************)
(* C28: requests through the shared `api` client that hold the same        *)
(* expired refresh token and are under way together cause exactly one      *)
(* refresh request, also when setConfig() is called while the refresh is   *)
(* in flight.                                                              *)
(***************************************************************************)
C28_OneRefreshThroughApi ==
    \A i, j \in SuspendedEnsure :
        (/\ ReadExpired(calls[i]) /\ ReadExpired(calls[j])
         /\ calls[i].tokens.refreshToken = calls[j].tokens.refreshToken)
        => /\ calls[i].flight = calls[j].flight
           /\ Cardinality({f \in flights :
                              f.rt = calls[i].tokens.refreshToken}) = 1

\* the same without a setConfig() since the older request was sent
C28_OneRefreshUnderOneManager ==
    \A i, j \in SuspendedEnsure :
        (/\ ReadExpired(calls[i]) /\ ReadExpired(calls[j])
         /\ calls[i].tokens.refreshToken = calls[j].tokens.refreshToken
         /\ FlightOf(calls[i].flight).manager = config.manager
         /\ FlightOf(calls[j].flight).manager = config.manager)
        => calls[i].flight = calls[j].flight

(***************************************************************************)
(* The four values of a record: all set, or none                           *)
(***************************************************************************)
AllPresent(jar) ==
    /\ jar.accessToken # Absent /\ jar.refreshToken # Absent
    /\ jar.expiresAt # Absent /\ jar.lastRefreshAt # Absent

AllOrNothing(jar) == AllPresent(jar) \/ jar = NoCookies

Completed ==
    {k \in Returning :
        returned[k].op \in {"login", "refresh", "ensure", "logout"}}

\* the bundles a response of the login or the refresh endpoint can carry
ResponseBundles ==
    {BundleOf(p) : p \in {q \in ParseResults : ~ q.threw}}
        \cup {BundleOf(b.parsed) : b \in {d \in LoginBodies : ~ d.parsed.threw}}

(***************************************************************************)
(* C29 as claimed: after every completed login, refresh, ensure or logout  *)
(* the four values of the ctx are all present or all absent.               *)
(***************************************************************************)
C29_AllOrNothingAfterEveryCall ==
    \A k \in Completed : AllOrNothing(store[returned[k].ctx])

(***************************************************************************)
(* C29 amended: every operation leaves the four values of a ctx as it      *)
(* found them, or all written from one bundle (with the time of the write  *)
(* as last-refresh timestamp), or all absent.  A record that has lost the  *)
(* cookies that live as long as the access token stays as it is when       *)
(* ensure() returns null for it.                                           *)
(***************************************************************************)
C29_WritesAllOrNothing ==
    [][\A c \in Ctx :
          store'[c] # store[c] =>
              \/ store'[c] = NoCookies
              \/ /\ AllPresent(store'[c])
                 /\ \E b \in ResponseBundles :
                       store'[c] = storeTokens(store[c], b, now)]_vars

\* two waiting ensure() calls of different ctx got the bundle of one refresh,
\* and each ctx holds all four values of that bundle
C29_Witness ==
    \E k, l \in ReturningEnsure :
        /\ returned[k].ctx # returned[l].ctx
        /\ returned[k].refresh.status = "ok"
        /\ \A c \in Ctx :
              /\ HoldsBundle(store[c], returned[k].refresh.bundle)
              /\ store[c].lastRefreshAt = now

(***************************************************************************)
(* C30: the client never puts the Authorization header on a request whose  *)
(* target is not of the origin of the configured baseURL; a request to a   *)
(* relative path under the baseURL carries it when a session exists.       *)
(***************************************************************************)
Requests == {k \in Returning : returned[k].op = "request"}

\* the origin the request goes to, when its URL names one
TargetOrigin(r) == originOf(r.fullURL)

C30_AuthorizationSameOriginOnly ==
    \A k \in Requests :
        LET r == returned[k]
        IN  /\ (r.headers.Authorization # Absent /\ TargetOrigin(r).valid)
                  => TargetOrigin(r) = originOf(config.baseURL)
            /\ (/\ r.url = <<"/me">> /\ originOf(config.baseURL).valid
                 /\ config.auth /\ ~ r.skipAuth
                 /\ getSession(retrieveTokens(store[r.ctx])).kind = "session")
                  => r.headers.Authorization = store[r.ctx].accessToken

\* the same under a baseURL that is a valid absolute URL
C30_SameOriginOnlyUnderValidBase ==
    originOf(config.baseURL).valid => C30_AuthorizationSameOriginOnly

(***************************************************************************)
(* C32 as claimed: whenever ensure() returns null or throws because of the *)
(* outcome of a refresh, the ctx it was called with holds no tokens        *)
(* afterwards, also when the call joined the refresh of another ctx.       *)
(***************************************************************************)
EndedByRefreshFailure(r) ==
    /\ r.op = "ensure"
    /\ r.refresh.status \in {"null", "err"}
    /\ r.result.kind \in {"null", "AuthError"}

C32_FailureClearsEveryCaller ==
    \A k \in Returning :
        EndedByRefreshFailure(returned[k])
        => store[returned[k].ctx] = NoCookies

\* the same for the call that started the refresh (it sent the request)
C32_FailureClearsTheStarter ==
    \A k \in Returning :
        (EndedByRefreshFailure(returned[k]) /\ returned[k].sent = 1)
        => store[returned[k].ctx] = NoCookies

(***************************************************************************)
(* C33 as claimed: once logout() has completed on a ctx, the ctx holds no  *)
(* tokens until the next successful login on it: the step that follows the *)
(* return of logout() leaves the cookies of the ctx empty unless it is a   *)
(* login on that ctx that succeeds, also when it is the answer to a        *)
(* refresh that was in flight for the ctx when logout() was called.        *)
(***************************************************************************)
C33_NoTokensAfterLogout ==
    [][\A k \in ReturningLogout :
          LET c == returned[k].ctx
          IN  store'[c] # NoCookies
              => \E j \in 1..Len(returned') :
                    /\ returned'[j].op = "login"
                    /\ returned'[j].path = "ok"
                    /\ returned'[j].ctx = c]_vars

(***************************************************************************)
(* C34 as claimed: the tokens a successful login() stored on a ctx (from a  *)
(* complete bundle) are                                                    *)
(* neither cleared nor replaced when a refresh that was in flight at the   *)
(* return of login() settles (with a bundle, a 401/403 or an error): the   *)
(* step that follows the return of login(), when it is the answer to a     *)
(* refresh request, leaves the cookies of the ctx as login() left them.    *)
(***************************************************************************)
C34_LoginSurvivesOlderRefresh ==
    [][\A k \in LoginSucceeded :
          (/\ ~ JarLacks(store[returned[k].ctx])
           /\ \E f \in flights : f \notin flights')
          => store'[returned[k].ctx] = store[returned[k].ctx]]_vars

(***************************************************************************)
(* C35 as claimed: whenever ensure() returns a Session, the access token   *)
(* in the cookies of its ctx is the access token of the Session at the     *)
(* moment of the return, whatever other calls on the ctx came in between.  *)
(***************************************************************************)
C35_SessionIsTheStoredToken ==
    \A k \in ReturningEnsure :
        returned[k].result.kind = "session"
        => store[returned[k].ctx].accessToken = returned[k].result.accessToken

\* the same, leaving out the calls on the proactive path whose refresh
\* returned null
C35_SessionIsTheStoredTokenUnlessNull ==
    \A k \in ReturningEnsure :
        (/\ returned[k].result.kind = "session"
         /\ ~ (returned[k].path = "proactive"
               /\ returned[k].refresh.status = "null"))
        => store[returned[k].ctx].accessToken = returned[k].result.accessToken

(***************************************************************************)
(* C37: a login that fails, by a non-2xx response, by a transport failure  *)
(* or by a body no bundle can be parsed from, leaves the cookies of its    *)
(* ctx as they were: the tokens stored before are still stored, with the   *)
(* same values.                                                            *)
(***************************************************************************)
FailedLoginPaths == LoginOutcomes \cup {"unparsable"}

C37_FailedLoginKeepsRecord ==
    [][\A j \in 1..Len(returned') :
          (returned'[j].op = "login" /\ returned'[j].path \in FailedLoginPaths)
          => store'[returned'[j].ctx] = store[returned'[j].ctx]]_vars

C37_Witness ==
    \E k \in ReturningLogin :
        /\ returned[k].path = "unparsable"
        /\ returned[k].result = ErrorResult("AuthError")
        /\ ~ JarLacks(store[returned[k].ctx])

(***************************************************************************)
(* C38: while the refresh token is held in the store, ensure() on that ctx *)
(* does not return null without having awaited a refresh request, also     *)
(* when the store has dropped the access token, the expiry and the         *)
(* last-refresh timestamp (their lifetime, accessExpiresAt - now, is over) *)
(* and holds the refresh token alone.                                      *)
(***************************************************************************)
ReadRefreshToken(r) == ~ Falsy(r.tokens.refreshToken)

C38_NoNullWhileRefreshTokenHeld ==
    \A k \in ReturningEnsure :
        (ReadRefreshToken(returned[k]) /\ returned[k].result = NullResult)
        => returned[k].refresh # NoRefresh

\* What holds: the refresh request precedes null while the access token,
\* the refresh token and the expiry are all held; a record reduced to the
\* refresh token gets null at once, and nothing is sent.
C38_NoNullWhileRecordComplete ==
    \A k \in ReturningEnsure :
        (ReadRefreshToken(returned[k]) /\ returned[k].result = NullResult)
        => IF ~ ReadComplete(returned[k])
           THEN returned[k].refresh = NoRefresh /\ returned[k].sent = 0
           ELSE returned[k].refresh # NoRefresh

C38_Witness ==
    \E k \in ReturningEnsure :
        /\ ReadComplete(returned[k])
        /\ returned[k].result = NullResult
        /\ returned[k].refresh.status = "null"
        /\ returned[k].sent = 1

(***************************************************************************)
(* ensure() against a refresh endpoint that grants access tokens of short  *)
(* and long lifetimes, under the default policy, a wider clock skew and a  *)
(* negative minimum interval.                                              *)
(***************************************************************************)
ServerLifetimes == {30, 59, 60, 119, 120, 3600}

LifetimePolicies ==
    {NoPolicy, [NoPolicy EXCEPT !.clockSkew = Num(120)],
     [NoPolicy EXCEPT !.minInterval = Num(0 - 5)]}

LifetimeInit ==
    /\ now = Now0
    /\ \E a \in {UserA(Now0 + 30, Now0 - 10), UserA(Now0 + 300, Absent)} :
          store = [c \in Ctx |-> a]
    /\ inFlight = {}
    /\ flights = {}
    /\ calls = <<>>
    /\ started = 0
    /\ returned = <<>>
    /\ nextTok = FirstFreshTok
    /\ \E p \in LifetimePolicies :
          config = [logout |-> TRUE, custom |-> FALSE, policy |-> p,
                    refreshData |-> NoData, refreshRequestField |-> "",
                    manager |-> 0]

\* the refresh endpoint answers 200 with { access_token, refresh_token,
\* expires_in: l } (performRefresh lines 199-219)
RefreshGrants(f, l) ==
    /\ f \in flights
    /\ LET p == autoDetectFields(
                    [accessToken |-> nextTok, refreshToken |-> nextTok + 1,
                     expiresAt |-> Unset, expiresIn |-> l], now)
       IN  /\ ValidBundle(p)
           /\ RefreshSettled(f, "ok", "ok", BundleOf(p),
                             storeTokens(store[f.ctx], BundleOf(p), now))
    /\ nextTok' = nextTok + 2
    /\ UNCHANGED <<now, started, config>>

LifetimeNext ==
    \/ \E c \in Ctx : EnsureStart(c, FALSE, NoData)
    \/ \E f \in flights, l \in ServerLifetimes : RefreshGrants(f, l)

LifetimeSpec == LifetimeInit /\ [][LifetimeNext]_vars

(***************************************************************************)
(* C40: a refresh does not make the record due again at once. An ensure()  *)
(* (force = false) that reads a record which a refresh stored at the same  *)
(* clock value sends no request and awaits none, whatever lifetime the     *)
(* server gave the new access token.                                       *)
(***************************************************************************)
ReadJustRefreshed(call) ==
    /\ call.op = "ensure"
    /\ ~ call.force
    /\ call.tokens.accessToken >= FirstFreshTok
    /\ call.tokens.lastRefreshAt = now

SendsNothing(call) ==
    /\ call.sent = 0
    /\ call.refresh = NoRefresh
    /\ call.result = Session(call.tokens.accessToken, call.tokens.expiresAt)

C40_NotDueAtOnce ==
    /\ \A i \in 1..Len(calls) : ~ ReadJustRefreshed(calls[i])
    /\ \A k \in Returning :
          ReadJustRefreshed(returned[k]) => SendsNothing(returned[k])

\* What holds: the lifetime is at least the clock skew and the minimum
\* interval is positive.
OutlivesSkew(call) ==
    LET n == normalizePolicy(config.policy)
    IN  /\ call.tokens.expiresAt - now >= n.clockSkew
        /\ n.minInterval > 0

C40_NotDueAtOnceBeyondSkew ==
    /\ \A i \in 1..Len(calls) :
          ~ (ReadJustRefreshed(calls[i]) /\ OutlivesSkew(calls[i]))
    /\ \A k \in Returning :
          (ReadJustRefreshed(returned[k]) /\ OutlivesSkew(returned[k]))
          => SendsNothing(returned[k])

\* the second ensure() finds the new token inside the proactive window
C40_Witness ==
    \E k \in Returning :
        /\ ReadJustRefreshed(returned[k])
        /\ OutlivesSkew(returned[k])
        /\ returned[k].tokens.expiresAt - now = DEFAULT_clockSkew
        /\ SendsNothing(returned[k])

(***************************************************************************)
(* client.ts, utils/retry.ts: one client request at a time through         *)
(* request() and executeRequest().  `calls` holds the request in progress: *)
(* `attempt` is the counter of request(), `depth` the attempt argument of  *)
(* the executeRequest() that runs, `sends` counts the fetches of the       *)
(* protected request, `forced` the forced ensure() calls, `resent` the     *)
(* re-sends after a 401, `ensureError` the error an ensure() of this       *)
(* request threw.  `returned` holds what the last step did: a send with    *)
(* its headers, or the end of the request with its result.                 *)
(***************************************************************************)
DEFAULT_RETRY_attempts == 3
DEFAULT_RETRY_statusCodes == {408, 429, 500, 502, 503, 504}

shouldRetryInclusive(status, attempt, retry) ==
    LET attempts == IF retry.attempts = Unset
                    THEN DEFAULT_RETRY_attempts ELSE retry.attempts
    IN  IF attempt > attempts THEN FALSE
        ELSE IF status = 0 THEN TRUE
        ELSE status \in DEFAULT_RETRY_statusCodes

\* retry.ts lines 35-55; status 0: error.status is undefined
shouldRetry(status, attempt, retry) ==
    LET attempts == IF retry.attempts = Unset
                    THEN DEFAULT_RETRY_attempts ELSE retry.attempts
    IN  IF attempt >= attempts THEN FALSE
        ELSE IF status = 0 THEN TRUE
        ELSE status \in DEFAULT_RETRY_statusCodes

\* What the refresh endpoint may answer to the request of one ensure(),
\* and what refresh()/performRefresh() make of it (manager.ts 138-222):
\* the status for ensure(), the bundle, the cookies afterwards, the error
\* thrown.
RefreshResults(jar) ==
    {[status |-> "null", bundle |-> NoBundle, jar |-> clearTokens(jar),
      error |-> NoError],
     [status |-> "err", bundle |-> NoBundle, jar |-> refreshCatch(jar),
      error |-> AuthError(0, "fetch error")],
     [status |-> "err", bundle |-> NoBundle, jar |-> refreshCatch(jar),
      error |-> AuthError(500, "none")],
     [status |-> "err", bundle |-> NoBundle, jar |-> refreshCatch(jar),
      error |-> AuthError(200, "none")]}
    \cup
    {[status |-> "ok", bundle |-> b, jar |-> storeTokens(jar, b, now),
      error |-> NoError] :
        b \in {[accessToken |-> nextTok, refreshToken |-> nextTok + 1,
                accessExpiresAt |-> now + l] : l \in Lifetimes}}

\* ensure(ctx, options, headers, force) run to its end (manager.ts 227-289)
\* with no other call on the manager: the result, the cookies afterwards,
\* the error thrown, whether a refresh request was sent.
EnsureRuns(c, force) ==
    LET jar == store[c]
        tokens == retrieveTokens(jar)
        call(path) == [NewCall("ensure", c, force) EXCEPT
                          !.tokens = tokens, !.path = path]
        refreshing(path) ==
            {[result |-> EnsureAfterAwait(call(path), o.status, o.bundle, o.jar),
              jar |-> o.jar, error |-> o.error, refreshed |-> TRUE] :
                o \in RefreshResults(jar)}
        returning(result) ==
            {[result |-> result, jar |-> jar, error |-> NoError,
              refreshed |-> FALSE]}
    IN  IF Incomplete(tokens) THEN returning(NullResult)
        ELSE IF reactive(force, tokens) THEN refreshing("reactive")
        ELSE IF shouldRefresh(tokens.expiresAt, now, tokens.lastRefreshAt,
                              config.policy)
        THEN refreshing("proactive")
        ELSE returning(Session(tokens.accessToken, tokens.expiresAt))

\* executeRequest line 553: no ensure() without a manager or under skipAuth
NotEnsured == [kind |-> "none", accessToken |-> 0, expiresAt |-> 0]

ApiURL == <<"/me">>

NewRequest(c, skipAuth) ==
    [op |-> "request", ctx |-> c, skipAuth |-> skipAuth, attempt |-> 1,
     depth |-> 1, pc |-> "execute", sends |-> 0, forced |-> 0, resent |-> 0,
     ensured |-> NotEnsured, ensureError |-> NoError]

Sent(r, headers) ==
    [op |-> "send", ctx |-> r.ctx, skipAuth |-> r.skipAuth,
     attempt |-> r.attempt, depth |-> r.depth, sends |-> r.sends,
     forced |-> r.forced, resent |-> r.resent, ensured |-> r.ensured,
     ensureError |-> r.ensureError, headers |-> headers, error |-> NoError,
     status |-> 0]

Ended(r, status, error) ==
    [op |-> "request", ctx |-> r.ctx, skipAuth |-> r.skipAuth,
     attempt |-> r.attempt, depth |-> r.depth, sends |-> r.sends,
     forced |-> r.forced, resent |-> r.resent, ensured |-> r.ensured,
     ensureError |-> r.ensureError, headers |-> [Authorization |-> Absent],
     error |-> error, status |-> status]

\* request() starts: lines 522-527
ClientRequest(c, skipAuth) ==
    /\ calls = <<>>
    /\ started < MaxCalls
    /\ started' = started + 1
    /\ calls' = <<NewRequest(c, skipAuth)>>
    /\ returned' = <<>>
    /\ UNCHANGED <<now, store, inFlight, flights, nextTok, config>>

\* request() lines 531-541: executeRequest() threw `error`
Caught(r, error) ==
    IF shouldRetry(error.status, r.attempt, config.retry)
    THEN /\ calls' = <<[r EXCEPT !.attempt = @ + 1, !.depth = r.attempt + 1,
                                 !.pc = "execute"]>>
         /\ returned' = <<>>
    ELSE /\ calls' = <<>>
         /\ returned' = <<Ended(r, 0, error)>>

Issued(o) == IF o.refreshed /\ o.result.kind = "session" /\ o.error = NoError
                /\ o.jar.accessToken = nextTok
             THEN nextTok + 2 ELSE nextTok

\* executeRequest lines 553-593: ensure(), the URL, the headers, the fetch
ExecuteRequest ==
    /\ calls # <<>>
    /\ calls[1].pc = "execute"
    /\ LET r == calls[1]
           fullURL == buildURL(ApiURL, config.baseURL)
       IN  IF config.auth /\ ~ r.skipAuth
           THEN \E o \in EnsureRuns(r.ctx, FALSE) :
                   /\ store' = [store EXCEPT ![r.ctx] = o.jar]
                   /\ nextTok' = Issued(o)
                   /\ IF o.result.kind \in {"AuthError", "Error"}
                      THEN Caught([r EXCEPT !.ensureError = o.error], o.error)
                      ELSE LET q == [r EXCEPT !.pc = "fetch", !.sends = @ + 1,
                                              !.ensured = o.result]
                           IN  /\ calls' = <<q>>
                               /\ returned' =
                                    <<Sent(q, buildHeaders(r.skipAuth,
                                              retrieveTokens(o.jar), fullURL))>>
           ELSE LET q == [r EXCEPT !.pc = "fetch", !.sends = @ + 1,
                                   !.ensured = NotEnsured]
                IN  /\ calls' = <<q>>
                    /\ returned' =
                         <<Sent(q, buildHeaders(r.skipAuth,
                                   retrieveTokens(store[r.ctx]), fullURL))>>
                    /\ UNCHANGED <<store, nextTok>>
    /\ UNCHANGED <<now, inFlight, flights, started, config>>

ResponseStatuses == {200, 401, 500}

\* line 598: ... && attempt === 1
forcedOnFirstAttempt(depth) == depth = 1

\* parseResponse lines 662-676
responseError(status) ==
    [name |-> IF status \in {401, 403} THEN "AuthError" ELSE "APIError",
     status |-> status, cause |-> "none"]

\* the fetch rejects, or is aborted by the timeout: lines 620-640
FetchFails ==
    /\ calls # <<>>
    /\ calls[1].pc = "fetch"
    /\ Caught(calls[1], [name |-> "NetworkError", status |-> 0,
                         cause |-> "fetch error"])
    /\ UNCHANGED <<now, store, inFlight, flights, started, nextTok, config>>

\* the fetch resolves with a response: lines 594-619
FetchResponds(status) ==
    /\ calls # <<>>
    /\ calls[1].pc = "fetch"
    /\ status \in ResponseStatuses
    /\ LET r == calls[1]
       IN  IF /\ status = 401 /\ config.auth /\ ~ r.skipAuth
              /\ forcedOnFirstAttempt(r.depth)
           THEN \E o \in EnsureRuns(r.ctx, TRUE) :
                   LET q == [r EXCEPT !.forced = @ + 1]
                   IN  /\ store' = [store EXCEPT ![r.ctx] = o.jar]
                       /\ nextTok' = Issued(o)
                       /\ IF o.result.kind \in {"AuthError", "Error"}
                          THEN Caught([q EXCEPT !.ensureError = o.error],
                                      o.error)
                          ELSE IF o.result.kind = "session"
                          THEN /\ calls' = <<[q EXCEPT !.depth = r.depth + 1,
                                                       !.resent = @ + 1,
                                                       !.pc = "execute"]>>
                               /\ returned' = <<>>
                          ELSE Caught(q, responseError(status))
           ELSE /\ IF status = 200
                   THEN /\ calls' = <<>>
                        /\ returned' = <<Ended(r, status, NoError)>>
                   ELSE Caught(r, responseError(status))
                /\ UNCHANGED <<store, nextTok>>
    /\ UNCHANGED <<now, inFlight, flights, started, config>>

\* a valid session, a session due for an expired token, no cookies, the
\* access token and its expiry alone
PipelineJars ==
    {UserA(Now0 + 3600, Absent), UserA(Now0 + 30, Now0 - 10), NoCookies,
     [UserA(Now0 + 3600, Absent) EXCEPT !.refreshToken = Absent]}

RetryAttempts == {Unset, 0, 1, 2}

PipelineInit ==
    /\ now = Now0
    /\ store \in {[c \in Ctx |-> jar] : jar \in PipelineJars}
    /\ inFlight = {}
    /\ flights = {}
    /\ calls = <<>>
    /\ started = 0
    /\ returned = <<>>
    /\ nextTok = FirstFreshTok
    /\ config \in {[logout |-> TRUE, custom |-> FALSE, policy |-> NoPolicy,
                     refreshData |-> NoData, refreshRequestField |-> "",
                     manager |-> 0,
                     baseURL |-> <<"https:", "//", "api.myapp.com">>,
                     auth |-> a, retry |-> [attempts |-> n]] :
                        a \in BOOLEAN, n \in RetryAttempts}

PipelineNext ==
    \/ \E c \in UserCtx, skipAuth \in BOOLEAN : ClientRequest(c, skipAuth)
    \/ ExecuteRequest
    \/ FetchFails
    \/ \E status \in ResponseStatuses : FetchResponds(status)

\* every await of the pipeline settles: the fetches are aborted after the
\* timeout, the sleep between two attempts is a timer
PipelineSpec == PipelineInit /\ [][PipelineNext]_vars /\ WF_vars(PipelineNext)

(***************************************************************************)
(* C31: every client request ends, with a response or an error, after at   *)
(* most attempts + 1 sends of the protected request (attempts: 3 unless    *)
(* configured); a 401 leads to a forced refresh on the first attempt only, *)
(* so a request makes at most one forced refresh and at most one re-send   *)
(* after a 401.                                                            *)
(***************************************************************************)
ConfiguredAttempts ==
    IF config.retry.attempts = Unset
    THEN DEFAULT_RETRY_attempts ELSE config.retry.attempts

\* the request in progress and what the last step reported of a request
PipelineRecords ==
    {calls[i] : i \in 1..Len(calls)} \cup {returned[k] : k \in Returning}

InProgress == calls # <<>>

C31_EndsWithinAttemptsPlusOne ==
    /\ [](\A r \in PipelineRecords :
             /\ r.sends <= ConfiguredAttempts + 1
             /\ r.forced <= 1
             /\ r.resent <= 1)
    /\ (InProgress ~> ~ InProgress)

\* What holds: the bound is attempts + 1 when attempts is at least 1; a
\* client configured with attempts 0 still re-sends once after a 401.
SendsBound == IF ConfiguredAttempts >= 1 THEN ConfiguredAttempts + 1 ELSE 2

C31_EndsWithinBound ==
    /\ [](\A r \in PipelineRecords :
             /\ r.sends <= SendsBound
             /\ r.forced <= 1
             /\ r.resent <= 1)
    /\ (InProgress ~> ~ InProgress)

\* the default three attempts, a forced refresh and the re-send: four sends
C31_Witness ==
    \E k \in Returning :
        /\ returned[k].op = "request"
        /\ returned[k].error # NoError
        /\ config.retry.attempts = Unset
        /\ returned[k].sends = DEFAULT_RETRY_attempts + 1
        /\ returned[k].forced = 1
        /\ returned[k].resent = 1

(***************************************************************************)
(* C36: when an ensure() made for a client request throws (the refresh     *)
(* failed otherwise than by 401/403), the client request rejects with that *)
(* AuthError and the protected request is not sent for it afterwards, in   *)
(* particular not without an Authorization header.                         *)
(***************************************************************************)
C36_EnsureErrorRejectsRequest ==
    \A k \in Returning :
        returned[k].ensureError # NoError
        => /\ returned[k].op = "request"
           /\ returned[k].error = returned[k].ensureError

\* the part that holds: a request whose ensure() threw an error that
\* request() does not retry ends with that error in the same step
C36_UnretriedEnsureErrorRejects ==
    \A k \in Returning :
        (/\ returned[k].ensureError # NoError
         /\ ~ shouldRetry(returned[k].ensureError.status, 1, config.retry))
        => /\ returned[k].op = "request"
           /\ returned[k].error = returned[k].ensureError

(***************************************************************************)
(* C39: a client request with auth enabled carries an Authorization header *)
(* only if the ensure() made for it returned a Session; when that ensure() *)
(* returned null the request is sent without the header.                   *)
(***************************************************************************)
Sends == {k \in Returning : returned[k].op = "send"}

C39_AuthorizationOnlyWithSession ==
    \A k \in Sends :
        (config.auth /\ ~ returned[k].skipAuth)
        => /\ returned[k].headers.Authorization # Absent
              => returned[k].ensured.kind = "session"
           /\ returned[k].ensured.kind = "null"
              => returned[k].headers.Authorization = Absent

\* the part that holds: the header goes with the Session of ensure() on
\* records that hold the refresh token or no access token
C39_OnlyWithSessionWhenRefreshTokenHeld ==
    \A k \in Sends :
        (/\ config.auth /\ ~ returned[k].skipAuth
         /\ \/ store[returned[k].ctx].refreshToken # Absent
            \/ store[returned[k].ctx].accessToken = Absent)
        => /\ returned[k].headers.Authorization # Absent
              => returned[k].ensured.kind = "session"
           /\ returned[k].ensured.kind = "null"
              => returned[k].headers.Authorization = Absent

====
